---- MODULE Spec2Model ----
(***************************************************************************)
(* Verification model of the synchronization substrate of sloev/invasiv.   *)
(*                                                                         *)
(*   Spec      the UDP sync engine (SyncClient of udp_file_transfer.hpp):  *)
(*             dispatcher thread, setPeers, pathsHasUpdated, start/stop.   *)
(*   LiveSpec  the same engine under fair scheduling and a fair network.   *)
(*   CycleSpec the same engine under fair scheduling, peers being replaced.*)
(*   SpecTcp   the TCP sync client (SyncClient of tcp_file_transfer.hpp):  *)
(*             syncToPeers, cancel, one SyncTask thread per target.        *)
(*   SpecPath  a receiver resolving the paths of GET, PUT, DELETE and of   *)
(*             FILE_OFFER against its root directory.                      *)
(*   SpecBulk  one UDP bulk transfer (blast_data to receive_bulk_data)     *)
(*             over a fair-lossy channel.                                  *)
(*   SpecStop  the same transfer with stop requested and a peer that may   *)
(*             stop responding.                                            *)
(*   SpecSess  the client's session cache (connect, PING/PONG, HELLO/      *)
(*             WELCOME) against servers creating sessions.                 *)
(*   SpecMd5   the server's digest cache: sessions running LIST, PUT and   *)
(*             DELETE on one file concurrently.                            *)
(*   SpecIdle  one server session (ClientSession::run and its handlers)    *)
(*             whose client may stop sending at any moment.                *)
(*   SpecHand  the handoff server of sync.h: a request to the listening    *)
(*             socket, the handler it spawns and the client call.          *)
(*   SpecNode  one node of the heartbeat variant: ofApp::update with the   *)
(*             peer map, the role, the project identity and the frames of  *)
(*             its own broadcasts looping back.                            *)
(*   SpecComs  the messenger of the sync variant: Coms::setup and          *)
(*             Coms::process with its peer map.                            *)
(*   SpecWatch the media watcher: the scans of MediaWatcher::threadLoop,   *)
(*             MediaWatcher::update and a file system that changes.        *)
(*   SpecOfw   the path watcher: the scans of ofWatcher::threadLoop,       *)
(*             ofWatcher::addPath and update, a changing file system.      *)
(*   SpecRecv  a peer receiving a media file: the FILE_OFFER, FILE_CHUNK   *)
(*             and FILE_END branches of ofApp::update, frame by frame.     *)
(*   SpecWarp  the mapping document: a master editing its surfaces         *)
(*             (WarpController), the snapshots and deltas it sends, and a  *)
(*             peer applying them (ofApp::update).                         *)
(*   SpecIdent the node identity: Identity::setup called by                *)
(*             ofApp::reloadProject at start and at a project change.      *)
(*   SpecLock  the media watcher's locking: MediaWatcher::scan step by     *)
(*             step under dataMutex, getAllItems and update of the main    *)
(*             thread.                                                     *)
(*   SpecData  the bytes of consecutive uploads on one session socket:     *)
(*             the datagrams of blast_data, and receive_bulk_data storing  *)
(*             them.                                                       *)
(*   SpecBeat  Network::threadedFunction of a master (heartbeat and        *)
(*             transferFile in one thread) and a peer that times the       *)
(*             master out and tracks incoming.active.                      *)
(*   SpecGone  a local deletion from MediaWatcher::scan through            *)
(*             pathsHasUpdated to the engine's cache and its DELETE.       *)
(*                                                                         *)
(* Every specification moves the variables of its own component and leaves *)
(* the others at their initial values.                                     *)
(***************************************************************************)
EXTENDS Integers, Sequences, FiniteSets, TLC

VARIABLES
    \* ---- SyncClient, state guarded by m_mutex
    m_stop_requested,     \* std::atomic<bool>
    m_peers_changed,      \* bool
    m_peers,              \* std::map<string,Peer>: the set of keys present
    m_peer_synced_state,  \* std::map<string,bool>: key -> converged flag
    m_pending_paths,      \* std::deque<string>
    \* ---- SyncClient, state owned by the dispatcher thread
    m_local_cache,        \* rel_path -> digest (0: no entry)
    pc,                   \* position of SyncClient::threadedFunction
    local_path_updates,   \* the deque moved out of m_pending_paths
    peers_to_process,     \* snapshot of the peers to process
    idx,                  \* index of the current item of peers_to_process
    attempts, changed, success, any_success,
    remote_map,           \* result of m_client.list()
    todo,                 \* entries the current for-loop has still to visit
    \* ---- environment
    disk,                 \* files under m_local_root: rel_path -> digest (0: absent)
    remote,               \* files under each peer's root
    \* ---- history (not program state)
    sess_failed,          \* a list/upload/delete of the current session failed
    h_stale_mark,         \* a flag was written while an invalidation was pending
    h_issued,             \* the uploads and deletes issued by the current pass
    h_confirmed,          \* paths whose present content the watcher has reported
    n_env,                \* environment events so far (bounded)
    \* ---- tcp_file::SyncClient
    m_targets,            \* std::vector<Target>
    m_current_tasks,      \* std::vector<unique_ptr<SyncTask>>: the tasks' state
    sync_pc,              \* position of tcp_file::SyncClient::threadedFunction
    n_sync,               \* calls of syncToPeers so far (bounded)
    \* ---- a receiver of paths: the file server session and ofApp::update
    files,                \* the receiver's file system: location -> content
    incoming,             \* ofApp::incoming (active, name)
    request,              \* the last request handled: its kind, whether its path escapes
    reply,                \* the reply sent to it
    access,               \* the file it read, wrote or removed
    \* ---- a bulk transfer: Client::blast_data to receive_bulk_data
    to_server,            \* datagrams in flight to the session's socket
    to_client,            \* datagrams in flight to the client's socket
    blast_pc,             \* position of Client::blast_data
    blast_i,              \* chunks sent by its first loop
    rbd_pc,               \* position of the session thread
    rx,                   \* sequences received (rx[s] set)
    done_sent,            \* CMD_DONE sent by receive_bulk_data
    peer_alive,           \* the peer still runs
    stop_seen,            \* m_stop_requested, set during the upload
    \* ---- Client (session cache) and the servers it talks to
    m_sessions,           \* unordered_map<string, sockaddr_in>: key -> endpoint
    m_session_addr,       \* sockaddr_in
    m_server_main_addr,   \* sockaddr_in
    m_connected,          \* bool
    c_key,                \* the key (host:port) of the current connect
    c_pc,                 \* position of the client
    hello_i,              \* HELLOs sent by the handshake
    net_srv,              \* datagrams on their way to a server
    net_cli,              \* datagrams on their way to the client's socket
    running,              \* the ClientSessions started, by their address
    last_req,             \* history: where the last request of this connect went
    h_connect,            \* history: what the current connect did
    n_connect, n_req,      \* calls and requests so far (bounded)
    \* ---- Server: the digest cache, sessions listing and mutating one file
    srv_file,             \* content of the file under the server root (0: absent)
    m_md5_cache,          \* the cache entry of its path (NoEntry: none)
    s_pc,                 \* per session, the position of its handler
    s_hash,               \* per session, the local variable hash of get_cached_md5
    s_report,             \* per session, the digest its last LIST reported
    s_clean,              \* history: no mutation has run since that LIST began
    n_mut,                 \* PUTs and DELETEs so far (bounded)
    \* ---- one ClientSession and the datagrams of its client
    i_pc,                 \* position of ClientSession::run and of the handler it called
    i_rx,                 \* receive_bulk_data: sequences received
    i_inbox,              \* datagrams on their way to the session's socket
    i_out,                \* the last datagram the session sent
    i_tick,               \* flips whenever a select of the session times out
    i_silent,             \* the client has stopped sending
    n_sent,                \* datagrams the client has sent (bounded)
    \* ---- handoff server of sync.h and one client call
    hd_root,              \* the server root: path -> content, Absent when no file
    hd_cpc,               \* position of the client call
    hd_call,              \* the command and argument of the call
    hd_retries,           \* negotiate_handoff: requests sent
    hd_main,              \* datagrams on their way to the listening socket
    hd_handler,           \* initial packets of the handlers spawned and not yet run
    hd_cli,               \* datagrams on their way to the client
    hd_result,            \* what the call returned
    n_calls,               \* calls made (bounded)
    \* ---- one node of the heartbeat variant (ofApp::update, Network.h)
    nd_identity,          \* identity.myId, read again by every reloadProject
    nd_isMaster,          \* net.isMaster
    nd_peers,             \* net.peers: id -> lastSeen, NoPeer when no record
    nd_now,               \* ofGetElapsedTimef, in seconds
    nd_wire,              \* frames in the listener's socket buffer, oldest first
    nd_doc,               \* the mapping document of the warper
    nd_incoming,          \* incoming: the file transfer being received
    nd_pending,           \* pendingFiles of the network thread
    h_dropped,            \* a frame was dropped by the loopback protection
    h_applied,             \* how deltas were applied: "own", "as_master", "as_peer"
    \* ---- the messenger of the sync variant (Coms)
    cm_up,                \* Coms::setup has run
    cm_peers,             \* peers: uid -> last_seen, NoPeer when no record
    cm_now,               \* ofGetCurrentTime, in seconds
    cm_inbox,             \* the datagram waiting in the listener
    cm_stack,             \* what the stack holds where udpMessage is placed
    cm_out,               \* the messages the last process() returned
    cm_reply,             \* the last process() answered an announce
    cm_polled,             \* process() has run since the clock last advanced
    \* ---- the media watcher (MediaWatcher)
    w_disk,               \* the watched root: path -> file, NoFile when none
    w_clock,              \* steady clock and file clock, in scan intervals
    w_scans,              \* parity of the scans made
    watchedFiles,         \* path -> PathInfo, NotWatched when not tracked
    eventQueue,           \* paths queued by scan for the next update
    h_emitted,            \* path -> change events notified for it
    h_life,               \* path -> "none", "created" (and untouched since) or "touched"
    n_writes,             \* file system operations made (bounded)
    h_lastMd5,            \* path -> digest of the file at its latest event
    h_burst,               \* path -> writes of its latest burst, events since it began
    \* ---- the path watcher (ofWatcher)
    ow_disk,              \* path -> mtime of the file, TimeMin when there is none
    ow_clock,             \* steady clock, in scan intervals
    ow_scans,             \* flips at every scan
    ow_roots,             \* watchedRoots holds the root
    ow_files,             \* watchedFiles: path -> PathInfo, OfwNone when not tracked
    ow_queue,             \* eventQueue
    n_ofw,                 \* file system operations made (bounded)
    \* ---- the receiver of a media file (ofApp::update, FILE_OFFER .. FILE_END)
    rc_disk,              \* media directory: path -> content, NoContent when absent
    rc_incoming,          \* ofApp::incoming: active, name, total, current, buf
    rc_pc,                \* "run", inside FILE_END: "write", "rename"; "crashed"
    rc_replay,            \* frames of a replayed sequence still to arrive
    h_outside,            \* a memcpy wrote outside the receive buffer
    n_frames,              \* frames received (bounded)
    \* ---- the mapping document (WarpController, WarpSurface, STRUCTURE_SNAPSHOT)
    wp_master,            \* master: WarpController::allSurfaces
    wp_drag,              \* master: targetPeerId, selectedIndex, editMode
    wp_saved,             \* master: the document saved at savePath
    wp_peer,              \* peer: WarpController::allSurfaces
    wp_file,              \* peer: configs/warps.json
    wp_wire,              \* frames in flight
    h_last,               \* the frame the peer handled last
    n_handled,            \* flips with every frame the peer handles
    n_warp,                \* operations of the master (bounded)
    \* ---- the node identity (Identity::setup, ofApp::reloadProject)
    id_disk,              \* project path -> configs/config.json, NoConfig when absent
    id_myId,              \* Identity::myId
    id_configPath,        \* Identity::configPath (the project it was set up for)
    id_up,                \* the application is running
    n_ident,               \* starts, reloads and edits made (bounded)
    \* ---- the media watcher's mutexes (MediaWatcher::scan, getAllItems)
    dataMutex,            \* the thread holding dataMutex, "none" when free
    sk_pc,                \* position of the watcher thread inside scan
    sk_todo,              \* files the directory walk has still to visit
    sk_files,             \* watchedFiles as this scan has left it so far
    sk_changes,           \* localChanges of this scan
    sk_queue,             \* eventQueue
    sk_clock,             \* steady clock, in scan intervals
    ui_pc,                \* main thread: "idle", or "blocked" inside getAllItems
    ui_items,             \* the result of the last getAllItems
    h_blockedBy,          \* what the holder was doing when getAllItems had to wait
    n_ui,                  \* calls of the main thread (bounded)
    \* ---- the bytes of bulk transfers (blast_data to receive_bulk_data)
    bd_net,               \* DATA datagrams in flight to the session socket
    bd_data,              \* the bytes the client passed to blast_data
    bd_out,               \* receive_bulk_data: the vector out
    bd_rx,                \* receive_bulk_data: the sequence numbers marked in rx
    bd_pc,                \* the session: "idle", "recv", "done", "crashed"
    h_over,               \* a memcpy wrote beyond the end of out
    n_xfer,                \* uploads started (bounded)
    \* ---- the network thread of a master and one receiving peer (Network.h)
    hb_now,               \* seconds since start (ofGetElapsedTimef, bounded)
    hb_tick,              \* flips every second the threads run
    hb_pending,           \* Network::pendingFiles: chunk counts of offered files
    hb_file,              \* the file transferFile is sending, NoXfer when none
    hb_left,              \* seconds of chunk sending left in transferFile
    hb_lastSeen,          \* the peer's peers[master].lastSeen, NoPeer when absent
    hb_incoming,          \* the peer's incoming.active
    hb_syncing,           \* the peer's myIsSyncing, sent in its heartbeat
    hb_has,               \* files the peer holds with the master's hash
    h_evicted,            \* the peer erased the running master from peers
    n_offers,              \* offerFile calls (bounded)
    \* ---- a deletion on its way from the media watcher to the peers
    gn_disk,              \* the shared root: path -> content, "none" when absent
    gn_mtime,             \* fs::last_write_time of the files of the shared root
    gn_watched,           \* MediaWatcher::watchedFiles: path -> entry
    gn_queue,             \* MediaWatcher::eventQueue
    gn_pending,           \* SyncClient::m_pending_paths
    gn_cache,             \* SyncClient::m_local_cache: path -> digest
    gn_remote,            \* the files of the peer's shared root
    gn_tick,              \* flips with every pass of the watcher thread
    h_deleted,            \* paths for which DELETE was sent to the peer
    n_gone                \* changes made to the shared root (bounded)

engineVars == <<m_stop_requested, m_peers_changed, m_peers, m_peer_synced_state,
                m_pending_paths, m_local_cache, pc, local_path_updates,
                peers_to_process, idx, attempts, changed, success, any_success,
                remote_map, todo, disk, remote, sess_failed, h_stale_mark,
                h_issued, h_confirmed, n_env>>

tcpVars == <<m_targets, m_current_tasks, sync_pc, n_sync>>

pathVars == <<files, incoming, request, reply, access>>

bulkVars == <<to_server, to_client, blast_pc, blast_i, rbd_pc, rx, done_sent,
              peer_alive, stop_seen>>

sessVars == <<m_sessions, m_session_addr, m_server_main_addr, m_connected, c_key,
              c_pc, hello_i, net_srv, net_cli, running, last_req, h_connect,
              n_connect, n_req>>

md5Vars == <<srv_file, m_md5_cache, s_pc, s_hash, s_report, s_clean, n_mut>>

idleVars == <<i_pc, i_rx, i_inbox, i_out, i_tick, i_silent, n_sent>>

handVars == <<hd_root, hd_cpc, hd_call, hd_retries, hd_main, hd_handler, hd_cli, hd_result, n_calls>>

nodeVars == <<nd_identity, nd_isMaster, nd_peers, nd_now, nd_wire, nd_doc, nd_incoming, nd_pending, h_dropped, h_applied>>

comsVars == <<cm_up, cm_peers, cm_now, cm_inbox, cm_stack, cm_out, cm_reply, cm_polled>>

watchVars == <<w_disk, w_clock, w_scans, watchedFiles, eventQueue, h_emitted, h_life, n_writes,
              h_lastMd5, h_burst>>

ofwVars == <<ow_disk, ow_clock, ow_scans, ow_roots, ow_files, ow_queue, n_ofw>>

recvVars == <<rc_disk, rc_incoming, rc_pc, rc_replay, h_outside, n_frames>>

warpVars == <<wp_master, wp_drag, wp_saved, wp_peer, wp_file, wp_wire, h_last, n_handled, n_warp>>

identVars == <<id_disk, id_myId, id_configPath, id_up, n_ident>>

lockVars == <<dataMutex, sk_pc, sk_todo, sk_files, sk_changes, sk_queue, sk_clock, ui_pc, ui_items, h_blockedBy, n_ui>>

dataVars == <<bd_net, bd_data, bd_out, bd_rx, bd_pc, h_over, n_xfer>>

beatVars == <<hb_now, hb_tick, hb_pending, hb_file, hb_left, hb_lastSeen, hb_incoming, hb_syncing, hb_has, h_evicted, n_offers>>

goneVars == <<gn_disk, gn_mtime, gn_watched, gn_queue, gn_pending, gn_cache, gn_remote, gn_tick, h_deleted, n_gone>>

vars == <<engineVars, tcpVars, pathVars, bulkVars, sessVars, md5Vars, idleVars, handVars, nodeVars, comsVars, watchVars, ofwVars, recvVars, warpVars, identVars, lockVars, dataVars, beatVars, goneVars>>

\* The variables of the other components
notEngine == <<tcpVars, pathVars, bulkVars, sessVars, md5Vars, idleVars, handVars, nodeVars, comsVars, watchVars, ofwVars, recvVars, warpVars, identVars, lockVars, dataVars, beatVars, goneVars>>
notTcp == <<engineVars, pathVars, bulkVars, sessVars, md5Vars, idleVars, handVars, nodeVars, comsVars, watchVars, ofwVars, recvVars, warpVars, identVars, lockVars, dataVars, beatVars, goneVars>>
notPath == <<engineVars, tcpVars, bulkVars, sessVars, md5Vars, idleVars, handVars, nodeVars, comsVars, watchVars, ofwVars, recvVars, warpVars, identVars, lockVars, dataVars, beatVars, goneVars>>
notBulk == <<engineVars, tcpVars, pathVars, sessVars, md5Vars, idleVars, handVars, nodeVars, comsVars, watchVars, ofwVars, recvVars, warpVars, identVars, lockVars, dataVars, beatVars, goneVars>>
notSess == <<engineVars, tcpVars, pathVars, bulkVars, md5Vars, idleVars, handVars, nodeVars, comsVars, watchVars, ofwVars, recvVars, warpVars, identVars, lockVars, dataVars, beatVars, goneVars>>
notMd5 == <<engineVars, tcpVars, pathVars, bulkVars, sessVars, idleVars, handVars, nodeVars, comsVars, watchVars, ofwVars, recvVars, warpVars, identVars, lockVars, dataVars, beatVars, goneVars>>
notIdle == <<engineVars, tcpVars, pathVars, bulkVars, sessVars, md5Vars, handVars, nodeVars, comsVars, watchVars, ofwVars, recvVars, warpVars, identVars, lockVars, dataVars, beatVars, goneVars>>
notHand == <<engineVars, tcpVars, pathVars, bulkVars, sessVars, md5Vars, idleVars, nodeVars, comsVars, watchVars, ofwVars, recvVars, warpVars, identVars, lockVars, dataVars, beatVars, goneVars>>
notNode == <<engineVars, tcpVars, pathVars, bulkVars, sessVars, md5Vars, idleVars, handVars, comsVars, watchVars, ofwVars, recvVars, warpVars, identVars, lockVars, dataVars, beatVars, goneVars>>
notComs == <<engineVars, tcpVars, pathVars, bulkVars, sessVars, md5Vars, idleVars, handVars, nodeVars, watchVars, ofwVars, recvVars, warpVars, identVars, lockVars, dataVars, beatVars, goneVars>>
notWatch == <<engineVars, tcpVars, pathVars, bulkVars, sessVars, md5Vars, idleVars, handVars, nodeVars, comsVars, ofwVars, recvVars, warpVars, identVars, lockVars, dataVars, beatVars, goneVars>>
notOfw == <<engineVars, tcpVars, pathVars, bulkVars, sessVars, md5Vars, idleVars, handVars, nodeVars, comsVars, watchVars, recvVars, warpVars, identVars, lockVars, dataVars, beatVars, goneVars>>
notRecv == <<engineVars, tcpVars, pathVars, bulkVars, sessVars, md5Vars, idleVars, handVars, nodeVars, comsVars, watchVars, ofwVars, warpVars, identVars, lockVars, dataVars, beatVars, goneVars>>
notWarp == <<engineVars, tcpVars, pathVars, bulkVars, sessVars, md5Vars, idleVars, handVars, nodeVars, comsVars, watchVars, ofwVars, recvVars, identVars, lockVars, dataVars, beatVars, goneVars>>
notIdent == <<engineVars, tcpVars, pathVars, bulkVars, sessVars, md5Vars, idleVars, handVars, nodeVars, comsVars, watchVars, ofwVars, recvVars, warpVars, lockVars, dataVars, beatVars, goneVars>>
notLock == <<engineVars, tcpVars, pathVars, bulkVars, sessVars, md5Vars, idleVars, handVars, nodeVars, comsVars, watchVars, ofwVars, recvVars, warpVars, identVars, dataVars, beatVars, goneVars>>
notData == <<engineVars, tcpVars, pathVars, bulkVars, sessVars, md5Vars, idleVars, handVars, nodeVars, comsVars, watchVars, ofwVars, recvVars, warpVars, identVars, lockVars, beatVars, goneVars>>
notBeat == <<engineVars, tcpVars, pathVars, bulkVars, sessVars, md5Vars, idleVars, handVars, nodeVars, comsVars, watchVars, ofwVars, recvVars, warpVars, identVars, lockVars, dataVars, goneVars>>
notGone == <<engineVars, tcpVars, pathVars, bulkVars, sessVars, md5Vars, idleVars, handVars, nodeVars, comsVars, watchVars, ofwVars, recvVars, warpVars, identVars, lockVars, dataVars, beatVars>>

(***************************************************************************)
(* Bounds and universes                                                    *)
(***************************************************************************)
MaxEnv == 3                   \* environment events (setPeers, file changes, stop/start)
MAX_ATTEMPTS == 3             \* while(attempts < 3 ...)

UPDATE_ME == "UPDATE_ME"
Paths == {"a", "b"}           \* relative paths under the shared root
Digests == {1, 2}             \* file contents, identified by their MD5
Absent == 0
Keys == {"self", "q1", "q2"}  \* node ids used as keys of the peer map
NonSelf == {"q1", "q2"}

\* Peer records (Coms.h): is_self is set for the local node only.
IsSelf(k) == k = "self"

ContentSets == [Paths -> Digests \cup {Absent}]
EmptySet == [p \in Paths |-> Absent]
Entries(m) == {p \in Paths : m[p] # Absent}

\* Iteration orders: std::map iterates by key, a directory walk in a fixed order.
KeyOrder == <<"q1", "q2", "self">>
PathOrder == <<"a", "b">>
SeqOf(order, S) == SelectSeq(order, LAMBDA x : x \in S)

(***************************************************************************)
(* SyncClient: the operations called by other threads                      *)
(***************************************************************************)
EnvTick == n_env < MaxEnv /\ n_env' = n_env + 1

\* Mutant of setPeers: the replacement reaches the cycle in progress
setPeers_live(peers) ==
    /\ EnvTick
    /\ m_peers' = peers
    /\ m_peer_synced_state' =
           [k \in peers |-> IF k \in DOMAIN m_peer_synced_state
                            THEN m_peer_synced_state[k] ELSE FALSE]
    /\ m_peers_changed' = TRUE
    /\ peers_to_process' = SeqOf(KeyOrder, {k \in peers : ~IsSelf(k)})
    /\ UNCHANGED <<h_issued, h_stale_mark, m_stop_requested, m_pending_paths, m_local_cache, pc,
                   local_path_updates, idx, attempts, changed,
                   success, any_success, remote_map, todo, disk, remote, sess_failed>>
    /\ UNCHANGED h_confirmed
    /\ UNCHANGED notEngine

\* SyncClient::setPeers
setPeers(peers) ==
    /\ EnvTick
    /\ m_peers' = peers
    /\ m_peer_synced_state' =
           [k \in peers |-> IF k \in DOMAIN m_peer_synced_state
                            THEN m_peer_synced_state[k] ELSE FALSE]
    /\ m_peers_changed' = TRUE
    /\ UNCHANGED <<h_issued, h_stale_mark, m_stop_requested, m_pending_paths, m_local_cache, pc,
                   local_path_updates, peers_to_process, idx, attempts, changed,
                   success, any_success, remote_map, todo, disk, remote, sess_failed>>
    /\ UNCHANGED h_confirmed
    /\ UNCHANGED notEngine

\* The deque after SyncClient::pathsHasUpdated(paths, initialize)
Enqueued(q, paths, initialize) ==
    (IF initialize THEN Append(q, UPDATE_ME) ELSE q) \o paths

\* SyncClient::pathsHasUpdated, called with the watcher's batch of changed paths
pathsHasUpdated(paths, initialize) ==
    /\ EnvTick
    /\ m_pending_paths' = Enqueued(m_pending_paths, paths, initialize)
    /\ h_confirmed' = h_confirmed \cup {paths[i] : i \in 1..Len(paths)}
    /\ UNCHANGED <<h_issued, h_stale_mark, m_stop_requested, m_peers_changed, m_peers, m_peer_synced_state,
                   m_local_cache, pc, local_path_updates, peers_to_process, idx,
                   attempts, changed, success, any_success, remote_map, todo, disk,
                   remote, sess_failed>>
    /\ UNCHANGED notEngine

\* SyncClient::stop: sets the flag and notifies; the caller then joins the thread
stop ==
    /\ EnvTick
    /\ pc \notin {"idle", "exited"}
    /\ ~m_stop_requested
    /\ m_stop_requested' = TRUE
    /\ UNCHANGED <<h_issued, h_stale_mark, m_peers_changed, m_peers, m_peer_synced_state, m_pending_paths,
                   m_local_cache, pc, local_path_updates, peers_to_process, idx,
                   attempts, changed, success, any_success, remote_map, todo, disk,
                   remote, sess_failed>>
    /\ UNCHANGED h_confirmed
    /\ UNCHANGED notEngine

\* SyncClient::start, with no thread running
start ==
    /\ pc \in {"idle", "exited"}
    /\ IF pc = "exited" THEN EnvTick ELSE UNCHANGED n_env
    /\ m_stop_requested' = FALSE
    /\ pc' = "start"
    /\ UNCHANGED <<h_issued, h_stale_mark, m_peers_changed, m_peers, m_peer_synced_state, m_pending_paths,
                   m_local_cache, local_path_updates, peers_to_process, idx,
                   attempts, changed, success, any_success, remote_map, todo, disk,
                   remote, sess_failed>>
    /\ UNCHANGED h_confirmed
    /\ UNCHANGED notEngine

\* A file of the local shared root is written (d # Absent) or removed (d = Absent)
LocalChange(p, d) ==
    /\ EnvTick
    /\ disk[p] # d
    /\ disk' = [disk EXCEPT ![p] = d]
    /\ h_confirmed' = h_confirmed \ {p}
    /\ UNCHANGED <<h_issued, h_stale_mark, m_stop_requested, m_peers_changed, m_peers, m_peer_synced_state,
                   m_pending_paths, m_local_cache, pc, local_path_updates,
                   peers_to_process, idx, attempts, changed, success, any_success,
                   remote_map, todo, remote, sess_failed>>
    /\ UNCHANGED notEngine

(***************************************************************************)
(* SyncClient::threadedFunction, one action per step                       *)
(***************************************************************************)
cur == peers_to_process[idx]

\* line 828: pathsHasUpdated({}, true)
ThreadStart ==
    /\ pc = "start"
    /\ m_pending_paths' = Enqueued(m_pending_paths, <<>>, TRUE)
    /\ pc' = "wait"
    /\ UNCHANGED <<h_issued, h_stale_mark, m_stop_requested, m_peers_changed, m_peers, m_peer_synced_state,
                   m_local_cache, local_path_updates, peers_to_process, idx,
                   attempts, changed, success, any_success, remote_map, todo, disk,
                   remote, sess_failed, n_env>>
    /\ UNCHANGED h_confirmed
    /\ UNCHANGED notEngine

\* lines 829, 838: the loop condition and the break after the wait
ThreadExit ==
    /\ pc = "wait"
    /\ m_stop_requested
    /\ pc' = "exited"
    /\ UNCHANGED <<h_issued, h_stale_mark, m_stop_requested, m_peers_changed, m_peers, m_peer_synced_state,
                   m_pending_paths, m_local_cache, local_path_updates,
                   peers_to_process, idx, attempts, changed, success, any_success,
                   remote_map, todo, disk, remote, sess_failed, n_env>>
    /\ UNCHANGED h_confirmed
    /\ UNCHANGED notEngine

\* Mutant of SnapshotFlags: the snapshot leaves the flags as they are
SnapshotFlags_keep(flags, has_new_updates) == flags

\* The flags after the snapshot (lines 842-846)
SnapshotFlags(flags, has_new_updates) ==
    IF has_new_updates THEN [k \in DOMAIN flags |-> FALSE] ELSE flags

\* Mutant of SnapshotPeers: a peer is selected only after an invalidation
SnapshotPeers_none(peers, flags) ==
    SeqOf(KeyOrder, {k \in peers : ~IsSelf(k) /\ ~flags[k] /\ m_pending_paths # <<>>})

\* The peers selected by the snapshot (lines 848-854)
SnapshotPeers(peers, flags) ==
    SeqOf(KeyOrder, {k \in peers : ~IsSelf(k) /\ ~flags[k]})

\* lines 833-855: wait_for returns (predicate or timeout), then the snapshot
\* under the lock
Snapshot ==
    /\ pc = "wait"
    /\ ~m_stop_requested
    /\ m_peers_changed' = FALSE
    /\ local_path_updates' = m_pending_paths
    /\ m_pending_paths' = <<>>
    /\ m_peer_synced_state' = SnapshotFlags(m_peer_synced_state, m_pending_paths # <<>>)
    /\ peers_to_process' = SnapshotPeers(m_peers, m_peer_synced_state')
    /\ pc' = "cache"
    /\ UNCHANGED <<h_issued, h_stale_mark, m_stop_requested, m_peers, m_local_cache, idx, attempts, changed,
                   success, any_success, remote_map, todo, disk, remote, sess_failed,
                   n_env>>
    /\ UNCHANGED h_confirmed
    /\ UNCHANGED notEngine

\* SyncClient::process_cache_updates, one iteration of its loop
ProcessCacheUpdate ==
    /\ pc = "cache"
    /\ IF local_path_updates = <<>> \/ m_stop_requested
       THEN /\ pc' = "peer"
            /\ idx' = 1
            /\ any_success' = FALSE
            /\ local_path_updates' = <<>>
            /\ h_stale_mark' = FALSE
            /\ UNCHANGED m_local_cache
       ELSE /\ LET path_str == Head(local_path_updates)
               IN IF path_str = UPDATE_ME
                  THEN /\ m_local_cache' = EmptySet
                       /\ local_path_updates' =
                              Tail(local_path_updates) \o SeqOf(PathOrder, Entries(disk))
                  ELSE /\ m_local_cache' = [m_local_cache EXCEPT ![path_str] = disk[path_str]]
                       /\ local_path_updates' = Tail(local_path_updates)
            /\ UNCHANGED <<pc, idx, any_success, h_stale_mark>>
    /\ UNCHANGED <<h_issued, m_stop_requested, m_peers_changed, m_peers, m_peer_synced_state,
                   m_pending_paths, peers_to_process, attempts, changed, success,
                   remote_map, todo, disk, remote, sess_failed, n_env>>
    /\ UNCHANGED h_confirmed
    /\ UNCHANGED notEngine

\* lines 860-871: the head of the peer loop and m_client.connect
ConnectPeerWith(ok) ==
    /\ pc = "peer"
    /\ IF idx > Len(peers_to_process) \/ m_stop_requested
       THEN /\ ok
            /\ pc' = "cycle_end"
            /\ UNCHANGED <<idx, attempts, success, sess_failed>>
       ELSE   IF ok
              THEN /\ pc' = "pass"
                   /\ attempts' = 0
                   /\ success' = FALSE
                   /\ sess_failed' = FALSE
                   /\ UNCHANGED idx
              ELSE /\ idx' = idx + 1
                   /\ UNCHANGED <<pc, attempts, success, sess_failed>>
    /\ UNCHANGED <<h_issued, h_stale_mark, m_stop_requested, m_peers_changed, m_peers, m_peer_synced_state,
                   m_pending_paths, m_local_cache, local_path_updates,
                   peers_to_process, changed, any_success, remote_map, todo, disk,
                   remote, n_env>>
    /\ UNCHANGED h_confirmed
    /\ UNCHANGED notEngine

ConnectPeer == \E ok \in BOOLEAN : ConnectPeerWith(ok)

\* No upload and no delete issued yet
NoneIssued == [up |-> {}, del |-> {}]

\* The result of Client::list: the peer's listing, or an empty map when the
\* request or the bulk reply failed
ListResult(ok, listing) == IF ok THEN listing ELSE EmptySet

\* lines 872-875: the head of the pass loop and m_client.list
PassBeginWith(ok) ==
    /\ pc = "pass"
    /\ IF attempts < MAX_ATTEMPTS /\ ~m_stop_requested
       THEN   /\ attempts' = attempts + 1
              /\ changed' = FALSE
              /\ remote_map' = ListResult(ok, remote[cur])
              /\ sess_failed' = (sess_failed \/ ~ok)
              /\ todo' = Entries(m_local_cache)
              /\ pc' = "upload"
       ELSE /\ ok
            /\ pc' = "mark"
            /\ UNCHANGED <<attempts, changed, remote_map, sess_failed, todo>>
    /\ h_issued' = NoneIssued
    /\ UNCHANGED <<h_stale_mark, m_stop_requested, m_peers_changed, m_peers, m_peer_synced_state,
                   m_pending_paths, m_local_cache, local_path_updates,
                   peers_to_process, idx, success, any_success, disk, remote, n_env>>
    /\ UNCHANGED h_confirmed
    /\ UNCHANGED notEngine

PassBegin == \E ok \in BOOLEAN : PassBeginWith(ok)

\* Mutant of need_upload: only a path absent from the listing is uploaded
need_upload_absent(path) == remote_map[path] = Absent

\* line 881
need_upload(path) == remote_map[path] = Absent \/ remote_map[path] # m_local_cache[path]

\* lines 877-889: one iteration of the upload loop
UploadEntryWith(ok) ==
    /\ pc = "upload"
    /\ IF todo = {} \/ m_stop_requested
       THEN /\ ok
            /\ pc' = "delete"
            /\ todo' = Entries(remote_map)
            /\ UNCHANGED <<changed, remote, sess_failed, h_issued>>
       ELSE \E path \in todo :
              /\ todo' = todo \ {path}
              /\ UNCHANGED pc
              /\ h_issued' = IF need_upload(path)
                             THEN [h_issued EXCEPT !.up = @ \cup {path}] ELSE h_issued
              /\ IF need_upload(path)
                 THEN   IF ok /\ disk[path] # Absent
                        THEN /\ remote' = [remote EXCEPT ![cur][path] = disk[path]]
                             /\ changed' = TRUE
                             /\ UNCHANGED sess_failed
                        ELSE /\ sess_failed' = TRUE
                             /\ UNCHANGED <<remote, changed>>
                 ELSE ok /\ UNCHANGED <<changed, remote, sess_failed>>
    /\ UNCHANGED <<h_stale_mark, m_stop_requested, m_peers_changed, m_peers, m_peer_synced_state,
                   m_pending_paths, m_local_cache, local_path_updates,
                   peers_to_process, idx, attempts, success, any_success, remote_map,
                   disk, n_env>>
    /\ UNCHANGED h_confirmed
    /\ UNCHANGED notEngine

UploadEntry == \E ok \in BOOLEAN : UploadEntryWith(ok)

\* lines 890-900: one iteration of the delete loop.  The request can be lost
\* (nothing happens) or its CMD_OK can be lost (the peer removed the file).
DeleteEntryWith(outcome) ==
    /\ pc = "delete"
    /\ IF todo = {} \/ m_stop_requested
       THEN /\ outcome = "ok"
            /\ pc' = "pass_end"
            /\ todo' = {}
            /\ UNCHANGED <<changed, remote, sess_failed, h_issued>>
       ELSE \E path \in todo :
              /\ todo' = todo \ {path}
              /\ UNCHANGED pc
              /\ h_issued' = IF m_local_cache[path] = Absent
                             THEN [h_issued EXCEPT !.del = @ \cup {path}] ELSE h_issued
              /\ IF m_local_cache[path] = Absent
                 THEN   /\ remote' = IF outcome = "request_lost" THEN remote
                                     ELSE [remote EXCEPT ![cur][path] = Absent]
                        /\ changed' = (changed \/ outcome = "ok")
                        /\ sess_failed' = (sess_failed \/ outcome # "ok")
                 ELSE outcome = "ok" /\ UNCHANGED <<changed, remote, sess_failed>>
    /\ UNCHANGED <<h_stale_mark, m_stop_requested, m_peers_changed, m_peers, m_peer_synced_state,
                   m_pending_paths, m_local_cache, local_path_updates,
                   peers_to_process, idx, attempts, success, any_success, remote_map,
                   disk, n_env>>
    /\ UNCHANGED h_confirmed
    /\ UNCHANGED notEngine

DeleteEntry == \E outcome \in {"ok", "request_lost", "reply_lost"} : DeleteEntryWith(outcome)

\* line 901
PassEnd ==
    /\ pc = "pass_end"
    /\ IF ~changed
       THEN success' = TRUE /\ pc' = "mark"
       ELSE UNCHANGED success /\ pc' = "pass"
    /\ remote_map' = EmptySet
    /\ h_issued' = NoneIssued
    /\ UNCHANGED <<h_stale_mark, m_stop_requested, m_peers_changed, m_peers, m_peer_synced_state,
                   m_pending_paths, m_local_cache, local_path_updates,
                   peers_to_process, idx, attempts, changed, any_success, todo, disk,
                   remote, sess_failed, n_env>>
    /\ UNCHANGED h_confirmed
    /\ UNCHANGED notEngine

\* The flags after lines 906-907
Marked(flags, peerKey) ==
    IF peerKey \in DOMAIN flags THEN [flags EXCEPT ![peerKey] = TRUE] ELSE flags

\* lines 903-908
MarkPeer ==
    /\ pc = "mark"
    /\ IF success
       THEN /\ any_success' = TRUE
            /\ m_peer_synced_state' = Marked(m_peer_synced_state, cur)
            /\ h_stale_mark' = (h_stale_mark \/ (cur \in DOMAIN m_peer_synced_state
                                                  /\ m_pending_paths # <<>>))
            /\ pc' = "marked"
            /\ UNCHANGED idx
       ELSE /\ idx' = idx + 1
            /\ pc' = "peer"
            /\ UNCHANGED <<any_success, m_peer_synced_state, h_stale_mark>>
    /\ UNCHANGED <<h_issued, m_stop_requested, m_peers_changed, m_peers, m_pending_paths,
                   m_local_cache, local_path_updates, peers_to_process, attempts,
                   changed, success, remote_map, todo, disk, remote, sess_failed,
                   n_env>>
    /\ UNCHANGED h_confirmed
    /\ UNCHANGED notEngine

\* line 909: the end of the peer loop's body
NextPeer ==
    /\ pc = "marked"
    /\ idx' = idx + 1
    /\ pc' = "peer"
    /\ UNCHANGED <<h_issued, h_stale_mark, m_stop_requested, m_peers_changed, m_peers, m_peer_synced_state,
                   m_pending_paths, m_local_cache, local_path_updates,
                   peers_to_process, attempts, changed, success, any_success,
                   remote_map, todo, disk, remote, sess_failed, n_env>>
    /\ UNCHANGED h_confirmed
    /\ UNCHANGED notEngine

\* lines 910-914: "Cycle Complete", back to the loop condition
CycleEnd ==
    /\ pc = "cycle_end"
    /\ pc' = "wait"
    /\ peers_to_process' = <<>>
    /\ idx' = 1
    /\ attempts' = 0
    /\ changed' = FALSE
    /\ success' = FALSE
    /\ any_success' = FALSE
    /\ sess_failed' = FALSE
    /\ UNCHANGED <<h_issued, h_stale_mark, m_stop_requested, m_peers_changed, m_peers, m_peer_synced_state,
                   m_pending_paths, m_local_cache, local_path_updates, remote_map,
                   todo, disk, remote, n_env>>
    /\ UNCHANGED h_confirmed
    /\ UNCHANGED notEngine

\* The steps of the running dispatcher
Running ==
    \/ ThreadStart \/ Snapshot \/ ProcessCacheUpdate \/ ConnectPeer
    \/ PassBegin \/ UploadEntry \/ DeleteEntry \/ PassEnd \/ MarkPeer \/ NextPeer
    \/ CycleEnd

Thread == Running \/ ThreadExit

\* The peer maps handed to setPeers: the local node is always present (Coms::setup)
PeerSets == {S \in SUBSET Keys : "self" \in S}

Env ==
    \/ \E S \in PeerSets : setPeers(S)
    \/ \E p \in Paths : pathsHasUpdated(<<p>>, FALSE)
    \/ \E p \in Paths, d \in Digests \cup {Absent} : LocalChange(p, d)
    \/ stop
    \/ start

InitEngine ==
    /\ m_stop_requested = FALSE
    /\ m_peers_changed = FALSE
    /\ m_peers = {}
    /\ m_peer_synced_state = [k \in {} |-> FALSE]
    /\ m_pending_paths = <<>>
    /\ m_local_cache = EmptySet
    /\ pc = "idle"
    /\ local_path_updates = <<>>
    /\ peers_to_process = <<>>
    /\ idx = 1
    /\ attempts = 0
    /\ changed = FALSE
    /\ success = FALSE
    /\ any_success = FALSE
    /\ remote_map = EmptySet
    /\ todo = {}
    /\ disk = [p \in Paths |-> IF p = "a" THEN 1 ELSE Absent]
    /\ remote = [k \in NonSelf |-> IF k = "q1" THEN [p \in Paths |-> IF p = "b" THEN 1 ELSE Absent]
                                   ELSE EmptySet]
    /\ sess_failed = FALSE
    /\ h_stale_mark = FALSE
    /\ h_issued = NoneIssued
    /\ h_confirmed = {}
    /\ n_env = 0

Next == Thread \/ Env

(***************************************************************************)
(* LiveSpec: the engine running against its peers, with the fairness of    *)
(* the thread scheduler and of a fair-lossy network: an operation that is  *)
(* attempted again and again eventually succeeds.  The watcher's batches   *)
(* are bounded, so every behaviour ends without further local change.      *)
(***************************************************************************)
LiveInit ==
    /\ m_stop_requested = FALSE
    /\ m_peers_changed = TRUE
    /\ m_peers = Keys
    /\ m_peer_synced_state = [k \in Keys |-> FALSE]
    /\ m_pending_paths = <<>>
    /\ m_local_cache = EmptySet
    /\ pc = "start"
    /\ local_path_updates = <<>>
    /\ peers_to_process = <<>>
    /\ idx = 1
    /\ attempts = 0
    /\ changed = FALSE
    /\ success = FALSE
    /\ any_success = FALSE
    /\ remote_map = EmptySet
    /\ todo = {}
    /\ disk = [p \in Paths |-> IF p = "a" THEN 1 ELSE Absent]
    /\ remote = [k \in NonSelf |-> IF k = "q1" THEN [p \in Paths |-> IF p = "b" THEN 1 ELSE Absent]
                                   ELSE EmptySet]
    /\ sess_failed = FALSE
    /\ h_stale_mark = FALSE
    /\ h_issued = NoneIssued
    /\ h_confirmed = {}
    /\ n_env = 0

LiveNext == Running \/ \E p \in Paths : pathsHasUpdated(<<p>>, FALSE)

\* The steps in which an operation on the network succeeds
ConnectOk == ConnectPeerWith(TRUE) /\ pc' = "pass"
ListOk == PassBeginWith(TRUE) /\ pc' = "upload"
UploadOk == UploadEntryWith(TRUE) /\ (\E path \in todo \ todo' : need_upload(path))
DeleteOk ==
    DeleteEntryWith("ok") /\ (\E path \in todo \ todo' : m_local_cache[path] = Absent)

(***************************************************************************)
(* CycleSpec: the dispatcher under fair scheduling while the application   *)
(* replaces the peer set and the watcher enqueues invalidations.           *)
(***************************************************************************)
CycleNext ==
    \/ Running
    \/ start
    \/ \E S \in PeerSets : setPeers(S)
    \/ \E p \in Paths : pathsHasUpdated(<<p>>, FALSE)

(***************************************************************************)
(* Claims about the sync engine                                            *)
(***************************************************************************)
\* The dispatcher has just written the converged flag of the current peer
JustMarked ==
    /\ pc = "marked"
    /\ cur \in DOMAIN m_peer_synced_state
    /\ m_peer_synced_state[cur]

\* C1: whenever the engine marks peer Q converged, the local content set equals
\* Q's content set (rel_path -> digest) at that moment, also when a LIST, an
\* upload or a delete of the pass failed.
C1_MarkedImpliesEqual == JustMarked => remote[cur] = m_local_cache

\* C2: a peer is never marked converged by a session in which one of its
\* listings, uploads or deletes failed.
C2_NoMarkAfterFailure == JustMarked => ~sess_failed

\* The step of the dispatcher that takes the snapshot under the lock
SnapshotStep == pc = "wait" /\ pc' = "cache"

\* A step of another thread that enqueues invalidations
EnqueueStep == Len(m_pending_paths') > Len(m_pending_paths) /\ pc # "start"

SeqRange(s) == {s[i] : i \in 1..Len(s)}

\* C10: an enqueued invalidation stays pending until the next snapshot; that
\* snapshot leaves the converged flag of every peer false and selects every
\* non-self peer; enqueueing does not touch the session in progress; and a flag
\* written by that session while the invalidation was pending is false again
\* after the snapshot.
C10_InvalidationReconverges ==
    [][ /\ (SnapshotStep /\ m_pending_paths # <<>>) =>
               /\ \A k \in DOMAIN m_peer_synced_state' : ~m_peer_synced_state'[k]
               /\ SeqRange(peers_to_process') = {k \in m_peers : ~IsSelf(k)}
               /\ local_path_updates' = m_pending_paths
        /\ (SnapshotStep /\ h_stale_mark) => m_pending_paths # <<>>
        /\ (m_pending_paths # <<>> /\ ~SnapshotStep) => m_pending_paths' # <<>>
        /\ EnqueueStep =>
               UNCHANGED <<pc, idx, attempts, changed, success, remote_map, todo,
                           peers_to_process, m_peer_synced_state, m_local_cache>>
      ]_vars

\* A snapshot has consumed an invalidation that arrived during a session which
\* then marked its peer converged; both non-self peers are selected again.
C10_Witness ==
    /\ pc = "cache"
    /\ h_stale_mark
    /\ local_path_updates # <<>>
    /\ Head(local_path_updates) # UPDATE_ME
    /\ peers_to_process = <<"q1", "q2">>

\* C11: in a pass the uploads issued are local entries absent from the listing
\* or listed with another digest, the deletes issued are listed paths without a
\* local entry, no path gets both; and when the two loops have run to their end
\* every such entry has had its upload and every such path its delete.
C11_UploadsAndDeletes ==
    pc \in {"upload", "delete", "pass_end"} =>
        LET ups == {p \in Entries(m_local_cache) :
                       remote_map[p] = Absent \/ remote_map[p] # m_local_cache[p]}
            dels == {p \in Entries(remote_map) : m_local_cache[p] = Absent}
        IN /\ h_issued.up \subseteq ups
           /\ h_issued.del \subseteq dels
           /\ h_issued.up \cap h_issued.del = {}
           /\ (pc \in {"delete", "pass_end"} /\ ~m_stop_requested) => h_issued.up = ups
           /\ (pc = "pass_end" /\ ~m_stop_requested) => h_issued.del = dels

\* A pass has ended that uploaded a file listed with another digest and
\* deleted a file without a local entry.
C11_Witness ==
    /\ pc = "pass_end"
    /\ ~m_stop_requested
    /\ h_issued.del # {}
    /\ \E p \in h_issued.up : remote_map[p] # Absent

\* The dispatcher is in the body of its peer loop for peer k
Processing(k) ==
    /\ pc \in {"peer", "pass", "upload", "delete", "pass_end", "mark"}
    /\ idx <= Len(peers_to_process)
    /\ cur = k

C13_CacheHoldsConfirmedOnly ==
    [][ \A p \in Paths :
          (m_local_cache'[p] # Absent /\ m_local_cache'[p] # m_local_cache[p])
              => p \in h_confirmed ]_vars

\* The dispatcher is between its snapshot and the end of the cycle
InCycle == pc \in {"cache", "peer", "pass", "upload", "delete", "pass_end",
                   "mark", "marked", "cycle_end"}

\* The dispatcher is past process_cache_updates, working on its peers
InPeerLoop == InCycle /\ pc # "cache"

\* C32: throughout a cycle the dispatcher works from the peer list and the
\* content set it captured at the start: the peer list stays as the snapshot
\* made it, the content set changes only while the captured queue is applied,
\* what arrives during the cycle waits in m_pending_paths and m_peers, and the
\* next snapshot takes the whole queue and the latest peer set.
C32_CycleWorksFromSnapshot ==
    [][ /\ (InCycle /\ pc' # "wait") => peers_to_process' = peers_to_process
        /\ InPeerLoop => /\ m_local_cache' = m_local_cache
                         /\ local_path_updates' = local_path_updates
        /\ (pc = "cache" /\ m_local_cache' # m_local_cache) =>
               /\ local_path_updates # <<>>
               /\ local_path_updates' # local_path_updates
        /\ ~SnapshotStep =>
               /\ Len(m_pending_paths) <= Len(m_pending_paths')
               /\ SubSeq(m_pending_paths', 1, Len(m_pending_paths)) = m_pending_paths
        /\ (pc' # pc) => m_peers' = m_peers
        /\ SnapshotStep =>
               /\ local_path_updates' = m_pending_paths
               /\ m_pending_paths' = <<>>
               /\ ~m_peers_changed'
               /\ SeqRange(peers_to_process') =
                      {k \in m_peers : ~IsSelf(k) /\ ~m_peer_synced_state'[k]}
      ]_vars

\* In the middle of a pass for q1 an invalidation and a peer set with the new
\* peer q2 have arrived; the pass still works from the list without q2.
C32_Witness ==
    /\ pc \in {"upload", "delete"}
    /\ peers_to_process = <<"q1">>
    /\ m_peers_changed
    /\ "q2" \in m_peers
    /\ m_pending_paths # <<>>
    /\ local_path_updates = <<>>

\* C4: node A holds file "a", which live peer q1 lacks, and local changes stop;
\* then the engine eventually ends a cycle with q1 holding the same content
\* set as A and marked converged.
C4_EventuallyConverged ==
    <>( /\ pc = "cycle_end"
        /\ m_peer_synced_state["q1"]
        /\ m_local_cache = disk
        /\ remote["q1"] = m_local_cache )

(***************************************************************************)
(* tcp_file::SyncClient: syncToPeers, cancel and the SyncTask threads       *)
(***************************************************************************)
MaxSync == 2                  \* calls of syncToPeers
max_attempts == 10            \* SyncTask::threadedFunction

Hosts == {"h1", "h2"}         \* addresses announced by the other nodes
Ports == {"p"}                \* the sync port of a node

\* Coms.h, struct Peer
PeerRecord(k, ip, port) == [uid |-> k, ip |-> ip, is_self |-> IsSelf(k), syncPort |-> port]

\* The peer maps of Coms (uid -> Peer) handed to syncToPeers: the local node's
\* record is always there; two other nodes may announce the same address.
PeerMaps ==
    UNION {[S -> Hosts] : S \in SUBSET NonSelf}

PeersOf(ips) ==
    [k \in DOMAIN ips \cup {"self"} |->
        IF IsSelf(k) THEN PeerRecord(k, "h0", "p") ELSE PeerRecord(k, ips[k], "p")]

\* The targets built by syncToPeers: one per non-self record, in map order
TargetsOf(peers) ==
    LET keys == SeqOf(KeyOrder, {k \in DOMAIN peers : ~peers[k].is_self})
    IN [i \in 1..Len(keys) |-> [host |-> peers[keys[i]].ip, port |-> peers[keys[i]].syncPort]]

\* SyncClient::syncToPeers.  cancel() blocks until the previous run and all of
\* its tasks have returned, so the call goes on only then.
syncToPeers(peers) ==
    /\ n_sync < MaxSync
    /\ sync_pc \in {"idle", "finished"}
    /\ n_sync' = n_sync + 1
    /\ m_current_tasks' = <<>>
    /\ m_targets' = TargetsOf(peers)
    /\ sync_pc' = "spawn"
    /\ UNCHANGED notTcp

\* A SyncTask as constructed by SyncClient::threadedFunction
NewTask(t) == [host |-> t.host, port |-> t.port, pc |-> "connect", attempts |-> 0,
               changed |-> TRUE]

\* SyncClient::threadedFunction: create and start the task of the next target
SpawnTask ==
    /\ sync_pc = "spawn"
    /\ IF Len(m_current_tasks) < Len(m_targets)
       THEN /\ m_current_tasks' =
                   Append(m_current_tasks, NewTask(m_targets[Len(m_current_tasks) + 1]))
            /\ UNCHANGED sync_pc
       ELSE /\ sync_pc' = "join"
            /\ UNCHANGED m_current_tasks
    /\ UNCHANGED <<m_targets, n_sync>>
    /\ UNCHANGED notTcp

\* SyncClient::threadedFunction: all child tasks have been waited for
JoinTasks ==
    /\ sync_pc = "join"
    /\ \A i \in 1..Len(m_current_tasks) : m_current_tasks[i].pc = "done"
    /\ m_current_tasks' = <<>>
    /\ sync_pc' = "finished"
    /\ UNCHANGED <<m_targets, n_sync>>
    /\ UNCHANGED notTcp

TaskStep(i, t) ==
    /\ m_current_tasks' = [m_current_tasks EXCEPT ![i] = t]
    /\ UNCHANGED <<m_targets, sync_pc, n_sync>>
    /\ UNCHANGED notTcp

\* SyncTask::threadedFunction: client.connect()
TaskConnect(i, ok) ==
    /\ m_current_tasks[i].pc = "connect"
    /\ TaskStep(i, [m_current_tasks[i] EXCEPT !.pc = IF ok THEN "loop" ELSE "done"])

\* while (changed && attempts++ < max_attempts && isThreadRunning())
TaskLoop(i) ==
    LET t == m_current_tasks[i]
    IN /\ t.pc = "loop"
       /\ TaskStep(i, IF ~t.changed THEN [t EXCEPT !.pc = "done"]
                      ELSE IF t.attempts < max_attempts
                           THEN [t EXCEPT !.attempts = @ + 1, !.changed = FALSE,
                                          !.pc = "list"]
                           ELSE [t EXCEPT !.attempts = @ + 1, !.pc = "done"])

\* client.list(); the task returns when the listing is empty and the local
\* root does not exist
TaskList(i, root_exists) ==
    /\ m_current_tasks[i].pc = "list"
    /\ TaskStep(i, [m_current_tasks[i] EXCEPT !.pc = IF root_exists THEN "upload"
                                                      ELSE "done"])

\* the upload loop: changed is set when an upload succeeded
TaskUpload(i, uploaded) ==
    /\ m_current_tasks[i].pc = "upload"
    /\ TaskStep(i, [m_current_tasks[i] EXCEPT !.pc = "delete",
                                               !.changed = @ \/ uploaded])

\* the delete loop: changed is set when a remove succeeded
TaskDelete(i, removed) ==
    /\ m_current_tasks[i].pc = "delete"
    /\ TaskStep(i, [m_current_tasks[i] EXCEPT !.pc = "loop",
                                               !.changed = @ \/ removed])

\* The indices of the tasks created so far
Tasks == 1..Len(m_current_tasks)

\* SyncTask::threadedFunction, any task
SyncTask ==
    \/ \E i \in Tasks, ok \in BOOLEAN : TaskConnect(i, ok)
    \/ \E i \in Tasks : TaskLoop(i)
    \/ \E i \in Tasks, root_exists \in BOOLEAN : TaskList(i, root_exists)
    \/ \E i \in Tasks, uploaded \in BOOLEAN : TaskUpload(i, uploaded)
    \/ \E i \in Tasks, removed \in BOOLEAN : TaskDelete(i, removed)

InitTcp ==
    /\ m_targets = <<>>
    /\ m_current_tasks = <<>>
    /\ sync_pc = "idle"
    /\ n_sync = 0

NextTcp ==
    \/ \E ips \in PeerMaps : syncToPeers(PeersOf(ips))
    \/ SpawnTask
    \/ JoinTasks
    \/ SyncTask

(***************************************************************************)
(* Claims about the TCP sync client                                        *)
(***************************************************************************)
\* A task holds a session: it has connected and is listing, uploading or deleting
InSession(t) == t.pc \in {"list", "upload", "delete"}

\* C3: at any time at most one sync session is in progress against any given
\* peer endpoint ip:port, also when two peer records carry the same endpoint.
C3_OneSessionPerEndpoint ==
    \A i, j \in Tasks :
        (i # j /\ InSession(m_current_tasks[i]) /\ InSession(m_current_tasks[j]))
            => <<m_current_tasks[i].host, m_current_tasks[i].port>>
                   # <<m_current_tasks[j].host, m_current_tasks[j].port>>

(***************************************************************************)
(* Paths received from the network: Server::ClientSession (GET, PUT,       *)
(* DELETE) and ofApp::update (FILE_OFFER, FILE_END)                        *)
(***************************************************************************)
MaxLen == 2                   \* components of a received path

\* A received path: whether it starts with "/", and its components
Components == {"..", ".", "a"}
RelPaths == UNION {[1..n -> Components] : n \in 0..MaxLen}
Received == [abs : BOOLEAN, comps : RelPaths]

\* Locations of the receiver's file system, from "/" down
m_root == <<"r">>
mediaDir == <<"r">>

RECURSIVE Collapse(_, _)
\* std::filesystem::path::lexically_normal on the components: dot is removed,
\* a name followed by dot-dot is removed with it, the remaining leading
\* dot-dots stay (out holds the result so far)
Collapse(out, rest) ==
    IF rest = <<>> THEN out
    ELSE LET c == Head(rest)
         IN IF c = "." THEN Collapse(out, Tail(rest))
            ELSE IF c = ".." /\ out # <<>> /\ out[Len(out)] # ".."
                 THEN Collapse(SubSeq(out, 1, Len(out) - 1), Tail(rest))
                 ELSE Collapse(Append(out, c), Tail(rest))

RECURSIVE DropDotDots(_)
\* lexically_normal, with a root directory: the leading dot-dots are removed
DropDotDots(s) == IF s # <<>> /\ Head(s) = ".." THEN DropDotDots(Tail(s)) ELSE s

lexically_normal(p) ==
    LET c == Collapse(<<>>, p.comps)
    IN [abs |-> p.abs, comps |-> IF p.abs THEN DropDotDots(c) ELSE c]

\* Server::ClientSession::safe_path: normalise, make an absolute path relative
\* to "/", append to the root.  Nothing is refused.
safe_path(rel, root) == root \o lexically_normal(rel).comps

\* ofFilePath::join(mediaDir, name) for a relative name
join(dir, name) == dir \o name.comps

RECURSIVE Walk(_, _)
\* The location the operating system resolves a path to
Walk(at, rest) ==
    IF rest = <<>> THEN at
    ELSE LET c == Head(rest)
         IN IF c = "." THEN Walk(at, Tail(rest))
            ELSE IF c = ".."
                 THEN Walk(IF at = <<>> THEN at ELSE SubSeq(at, 1, Len(at) - 1), Tail(rest))
                 ELSE Walk(Append(at, c), Tail(rest))

Resolve(full) == Walk(<<>>, full)

IsPrefix(s, t) == Len(s) <= Len(t) /\ SubSeq(t, 1, Len(s)) = s

InsideRoot(loc) == IsPrefix(m_root, loc)

\* The received path resolves outside the root, or is absolute
Escapes(p) == p.abs \/ ~InsideRoot(Resolve(m_root \o p.comps))

\* The files that exist, as location -> content
Exists(loc) == loc \in DOMAIN files
IsDirectory(loc) ==
    \/ IsPrefix(loc, m_root)
    \/ \E f \in DOMAIN files : f # loc /\ IsPrefix(loc, f)
CanCreate(loc) ==
    /\ ~IsDirectory(loc)
    /\ \A f \in DOMAIN files : f # loc => ~IsPrefix(f, loc)

Written(loc, content) ==
    [l \in DOMAIN files \cup {loc} |-> IF l = loc THEN content ELSE files[l]]
Removed(loc) == [l \in DOMAIN files \ {loc} |-> files[l]]

\* Server::ClientSession::send_file (CMD_GET)
send_file(rel) ==
    LET full == Resolve(safe_path(rel, m_root))
    IN /\ request' = [kind |-> "GET", escapes |-> Escapes(rel)]
       /\ IF ~Exists(full)
          THEN reply' = "ERR" /\ access' = [op |-> "none", loc |-> full]
          ELSE reply' = "SIZE" /\ access' = [op |-> "read", loc |-> full]
       /\ UNCHANGED <<files, incoming>>
       /\ UNCHANGED notPath

\* Server::ClientSession::receive_file (CMD_PUT): CMD_OK is sent at once; the
\* file is written when the bulk data has been received
receive_file(rel, received) ==
    LET full == Resolve(safe_path(rel, m_root))
    IN /\ request' = [kind |-> "PUT", escapes |-> Escapes(rel)]
       /\ reply' = "OK"
       /\ IF received /\ CanCreate(full)
          THEN files' = Written(full, "new") /\ access' = [op |-> "write", loc |-> full]
          ELSE UNCHANGED files /\ access' = [op |-> "none", loc |-> full]
       /\ UNCHANGED incoming
       /\ UNCHANGED notPath

\* Server::ClientSession::delete_file (CMD_DELETE)
delete_file(rel) ==
    LET full == Resolve(safe_path(rel, m_root))
    IN /\ request' = [kind |-> "DELETE", escapes |-> Escapes(rel)]
       /\ reply' = "OK"
       /\ IF Exists(full)
          THEN files' = Removed(full) /\ access' = [op |-> "remove", loc |-> full]
          ELSE UNCHANGED files /\ access' = [op |-> "none", loc |-> full]
       /\ UNCHANGED incoming
       /\ UNCHANGED notPath

\* ofApp::update, PKT_FILE_OFFER on a node that is not master: the local file
\* of that name is hashed and the offer accepted when the hashes differ
FileOffer(name, same_hash) ==
    LET fullPath == Resolve(join(mediaDir, name))
    IN /\ ~name.abs
       /\ request' = [kind |-> "FILE_OFFER", escapes |-> Escapes(name)]
       /\ reply' = "none"
       /\ access' = [op |-> IF Exists(fullPath) THEN "read" ELSE "none", loc |-> fullPath]
       /\ incoming' = IF Exists(fullPath) /\ same_hash THEN incoming
                      ELSE [active |-> TRUE, name |-> name]
       /\ UNCHANGED files
       /\ UNCHANGED notPath

\* ofApp::update, PKT_FILE_END: the buffer is written and renamed to the name
FileEnd ==
    LET finalPath == Resolve(join(mediaDir, incoming.name))
    IN /\ incoming.active
       /\ incoming' = [incoming EXCEPT !.active = FALSE]
       /\ request' = [kind |-> "FILE_END", escapes |-> Escapes(incoming.name)]
       /\ reply' = "none"
       /\ IF CanCreate(finalPath)
          THEN files' = Written(finalPath, "new") /\ access' = [op |-> "write", loc |-> finalPath]
          ELSE UNCHANGED files /\ access' = [op |-> "none", loc |-> finalPath]
       /\ UNCHANGED notPath

\* The receiver with one file in its root and one file next to the root
InitPath ==
    /\ files = (<<"r", "a">> :> "old") @@ (<<"a">> :> "old")
    /\ request = [kind |-> "none", escapes |-> FALSE]
    /\ reply = "none"
    /\ access = [op |-> "none", loc |-> <<>>]
    /\ incoming = [active |-> FALSE, name |-> [abs |-> FALSE, comps |-> <<>>]]

NextPath ==
    \/ \E rel \in Received : send_file(rel)
    \/ \E rel \in Received, received \in BOOLEAN : receive_file(rel, received)
    \/ \E rel \in Received : delete_file(rel)
    \/ \E name \in Received, same_hash \in BOOLEAN : FileOffer(name, same_hash)
    \/ FileEnd

(***************************************************************************)
(* Claims about received paths                                             *)
(***************************************************************************)
\* C9: the file the receiver reads, writes or removes for a received path lies
\* inside its root, and a request whose path resolves outside the root is
\* answered with ERR and touches no file.
C9_PathSafety ==
    /\ access.op # "none" => InsideRoot(access.loc)
    /\ (request.kind \in {"GET", "PUT", "DELETE"} /\ request.escapes)
           => (reply = "ERR" /\ access.op = "none")

(***************************************************************************)
(* A UDP bulk transfer of an upload: Client::blast_data sends to           *)
(* Server::ClientSession::receive_bulk_data over a lossy channel           *)
(***************************************************************************)
total_chunks == 2             \* chunks of the file being uploaded
DONE_REPEAT == 3              \* for(int i=0;i<3;i++) sendto(CMD_DONE)
NACK_BATCH == 20              \* if(i%20==0) break

Seqs == 1..total_chunks
DATA(s) == [t |-> "DATA", s |-> s]
NACK(s) == [t |-> "NACK", s |-> s]
DONE == [t |-> "DONE", s |-> 0]

\* The NACKs sent on one receive timeout: the missing sequences in order, up
\* to and including the first multiple of 20
NackBatch(missing) ==
    {i \in missing : \A j \in missing : j < i => j % NACK_BATCH # 0}

\* A datagram in flight is lost
Lose ==
    /\ \/ \E pkt \in to_server : to_server' = to_server \ {pkt} /\ UNCHANGED to_client
       \/ \E pkt \in to_client : to_client' = to_client \ {pkt} /\ UNCHANGED to_server
    /\ UNCHANGED <<blast_pc, blast_i, rbd_pc, rx, done_sent, peer_alive, stop_seen>>
    /\ UNCHANGED notBulk

\* Client::blast_data, the initial loop: send chunk i + 1
BlastSend ==
    /\ blast_pc = "blast"
    /\ IF blast_i < total_chunks
       THEN /\ to_server' = to_server \cup {DATA(blast_i + 1)}
            /\ blast_i' = blast_i + 1
            /\ UNCHANGED blast_pc
       ELSE /\ blast_pc' = "loop"
            /\ UNCHANGED <<to_server, blast_i>>
    /\ UNCHANGED <<to_client, rbd_pc, rx, done_sent, peer_alive, stop_seen>>
    /\ UNCHANGED notBulk

\* The datagrams in flight to the server after the sender has handled pkt
Retransmit(flight, pkt) ==
    IF pkt.t = "NACK" /\ pkt.s > 0 /\ pkt.s <= total_chunks
    THEN flight \cup {DATA(pkt.s)} ELSE flight

\* Client::blast_data, one round of while(true) in which a datagram arrives
\* within the 200 ms: CMD_DONE is sent, the datagram is read; the function
\* returns on CMD_DONE and on nothing else
BlastRecv(pkt) ==
    /\ blast_pc = "loop"
    /\ pkt \in to_client
    /\ to_client' = to_client \ {pkt}
    /\ blast_pc' = IF pkt.t = "DONE" THEN "returned" ELSE "loop"
    /\ to_server' = Retransmit(to_server \cup {DONE}, pkt)
    /\ UNCHANGED <<blast_i, rbd_pc, rx, done_sent, peer_alive, stop_seen>>
    /\ UNCHANGED notBulk

\* Client::blast_data, one round of while(true) in which the select times out
BlastTimeout ==
    /\ blast_pc = "loop"
    /\ to_server' = to_server \cup {DONE}
    /\ UNCHANGED <<to_client, blast_pc, blast_i, rbd_pc, rx, done_sent, peer_alive,
                   stop_seen>>
    /\ UNCHANGED notBulk

\* Server::ClientSession::receive_bulk_data: a datagram arrives in the loop
ReceiveData(pkt) ==
    /\ peer_alive
    /\ rbd_pc = "recv"
    /\ pkt \in to_server
    /\ to_server' = to_server \ {pkt}
    /\ rx' = IF pkt.t = "DATA" /\ pkt.s > 0 /\ pkt.s <= total_chunks
             THEN rx \cup {pkt.s} ELSE rx
    /\ rbd_pc' = IF Cardinality(rx') < total_chunks THEN "recv" ELSE "fin"
    /\ UNCHANGED <<to_client, blast_pc, blast_i, done_sent, peer_alive, stop_seen>>
    /\ UNCHANGED notBulk

\* Server::ClientSession::receive_bulk_data: 500 ms without a datagram, the
\* missing sequences are NACKed
ReceiveTimeout ==
    /\ peer_alive
    /\ rbd_pc = "recv"
    /\ to_client' = to_client \cup {NACK(i) : i \in NackBatch(Seqs \ rx)}
    /\ UNCHANGED <<to_server, blast_pc, blast_i, rbd_pc, rx, done_sent, peer_alive,
                   stop_seen>>
    /\ UNCHANGED notBulk

\* Server::ClientSession::receive_bulk_data: CMD_DONE is sent three times, then
\* the function returns to the session loop
ReceiveDone ==
    /\ peer_alive
    /\ rbd_pc = "fin"
    /\ IF done_sent < DONE_REPEAT
       THEN /\ to_client' = to_client \cup {DONE}
            /\ done_sent' = done_sent + 1
            /\ UNCHANGED rbd_pc
       ELSE /\ rbd_pc' = "session"
            /\ UNCHANGED <<to_client, done_sent>>
    /\ UNCHANGED <<to_server, blast_pc, blast_i, rx, peer_alive, stop_seen>>
    /\ UNCHANGED notBulk

\* Server::ClientSession::run: a datagram that is no request (DATA, DONE) is
\* read and ignored
SessionIgnore(pkt) ==
    /\ peer_alive
    /\ rbd_pc = "session"
    /\ pkt \in to_server
    /\ to_server' = to_server \ {pkt}
    /\ UNCHANGED <<to_client, blast_pc, blast_i, rbd_pc, rx, done_sent, peer_alive,
                   stop_seen>>
    /\ UNCHANGED notBulk

\* The peer stops responding (it is switched off or leaves the network)
PeerStops ==
    /\ peer_alive
    /\ peer_alive' = FALSE
    /\ UNCHANGED <<to_server, to_client, blast_pc, blast_i, rbd_pc, rx, done_sent,
                   stop_seen>>
    /\ UNCHANGED notBulk

\* SyncClient::stop while the sync thread is inside Client::upload
StopRequested ==
    /\ ~stop_seen
    /\ blast_pc # "returned"
    /\ stop_seen' = TRUE
    /\ UNCHANGED <<to_server, to_client, blast_pc, blast_i, rbd_pc, rx, done_sent,
                   peer_alive>>
    /\ UNCHANGED notBulk

InitBulk ==
    /\ to_server = {}
    /\ to_client = {}
    /\ blast_pc = "blast"
    /\ blast_i = 0
    /\ rbd_pc = "recv"
    /\ rx = {}
    /\ done_sent = 0
    /\ peer_alive = TRUE
    /\ stop_seen = FALSE

\* The steps of the sending client and of the receiving session
Sender == BlastSend \/ BlastTimeout \/ \E pkt \in to_client : BlastRecv(pkt)
Receiver ==
    \/ \E pkt \in to_server : ReceiveData(pkt)
    \/ ReceiveTimeout
    \/ ReceiveDone
    \/ \E pkt \in to_server : SessionIgnore(pkt)

NextBulk == Sender \/ Receiver \/ Lose
NextStop == Sender \/ Receiver \/ Lose \/ PeerStops \/ StopRequested

\* Deliveries: a datagram reaches its destination and is of use there
DeliverData == \E s \in Seqs \ rx : ReceiveData(DATA(s))
DeliverNack == \E s \in Seqs : BlastRecv(NACK(s))
DeliverDone == BlastRecv(DONE)

\* Both threads keep running; the receiver's timeout eventually fires; a
\* datagram that is sent again and again is eventually delivered
FairBulk ==
    /\ WF_vars(Sender)
    /\ WF_vars(Receiver)
    /\ SF_vars(ReceiveTimeout)
    /\ SF_vars(DeliverData)
    /\ SF_vars(DeliverNack)
    /\ SF_vars(DeliverDone)

(***************************************************************************)
(* Claims about the bulk transfer                                          *)
(***************************************************************************)
\* C5: under fair-lossy delivery the transfer terminates at both ends: the
\* receiver holds all sequences 1..N and the sender has seen DONE and returned.
C5_BulkTerminates == <>(rx = Seqs /\ blast_pc = "returned")

\* C6: after stop is requested the sync thread returns from the bulk send, also
\* when the peer has stopped responding.
C6_StopReturns == stop_seen ~> blast_pc = "returned"

(***************************************************************************)
(* Client sessions: Client::connect with its session cache, ping_session,  *)
(* handshake and wait_for_packet, against Server and ClientSession::run    *)
(***************************************************************************)
MaxSess == 2                  \* sessions a server creates (ephemeral ports 1..MaxSess)
MaxConnect == 3               \* calls of Client::connect
MaxReq == 2                   \* requests sent
HELLO_TRIES == 3              \* handshake: for(int i=0; i<3; i++)

MAIN == 0                     \* the port a server listens on
Servers == {"h1"}             \* the hosts running a Server
Addr(h, port) == [host |-> h, port |-> port]
NoAddr == Addr("none", MAIN)
\* The ephemeral port the next ClientSession binds
next_port == Cardinality(running) + 1

\* Datagrams: to a server (HELLO, PING, REQ) and to the client (WELCOME with
\* the session's port as payload, PONG, OK), with the address they come from
ToServer(t, dst) == [t |-> t, dst |-> dst]
ToClient(t, src) == [t |-> t, src |-> src, port |-> src.port]

\* Mutant of Erased: a session whose PING failed stays in the cache
Erased_kept(sessions, key) == sessions

\* m_sessions.erase(key)
Erased(sessions, key) == [k \in DOMAIN sessions \ {key} |-> sessions[k]]

\* m_sessions[key] = addr
Cached(sessions, key, addr) ==
    [k \in DOMAIN sessions \cup {key} |-> IF k = key THEN addr ELSE sessions[k]]

NoHistory == [cached |-> FALSE, pinged |-> NoAddr, pong |-> FALSE,
              ping_failed |-> FALSE, welcome |-> FALSE, welcome_read |-> FALSE]

\* Client::handshake, its entry and the first HELLO
HandshakeBegin(host) ==
    /\ m_session_addr' = Addr(host, MAIN)
    /\ m_connected' = FALSE
    /\ hello_i' = 1
    /\ net_srv' = net_srv \cup {ToServer("HELLO", Addr(host, MAIN))}
    /\ c_pc' = "hello_wait"

\* Client::connect up to its first wait: a cached session is pinged, otherwise
\* the handshake begins
connect(host) ==
    /\ c_pc = "idle"
    /\ n_connect < MaxConnect
    /\ n_connect' = n_connect + 1
    /\ c_key' = host
    /\ m_server_main_addr' = Addr(host, MAIN)
    /\ last_req' = NoAddr
    /\ IF host \in DOMAIN m_sessions
       THEN /\ m_session_addr' = m_sessions[host]
            /\ net_srv' = net_srv \cup {ToServer("PING", m_sessions[host])}
            /\ c_pc' = "ping_wait"
            /\ h_connect' = [NoHistory EXCEPT !.cached = TRUE, !.pinged = m_sessions[host]]
            /\ UNCHANGED <<m_connected, hello_i>>
       ELSE /\ HandshakeBegin(host)
            /\ h_connect' = NoHistory
    /\ UNCHANGED <<m_sessions, net_cli, running, n_req>>
    /\ UNCHANGED notSess

\* Client::wait_for_packet: a datagram is read.  recvfrom stores its source in
\* m_session_addr; a datagram of the expected type ends the wait.
WaitRecv(pkt) ==
    /\ c_pc \in {"ping_wait", "hello_wait"}
    /\ pkt \in net_cli
    /\ net_cli' = net_cli \ {pkt}
    /\ IF c_pc = "ping_wait"
       THEN /\ m_session_addr' = pkt.src
            /\ IF pkt.t = "PONG"
               THEN /\ m_connected' = TRUE
                    /\ c_pc' = "connected"
                    /\ h_connect' = [h_connect EXCEPT !.pong = TRUE]
               ELSE /\ h_connect' = [h_connect EXCEPT
                                        !.welcome_read = @ \/ pkt.t = "WELCOME"]
                    /\ UNCHANGED <<m_connected, c_pc>>
            /\ UNCHANGED m_sessions
       ELSE IF pkt.t = "WELCOME"
            THEN /\ m_session_addr' = Addr(m_server_main_addr.host, pkt.port)
                 /\ m_connected' = TRUE
                 /\ m_sessions' = Cached(m_sessions, c_key, m_session_addr')
                 /\ c_pc' = "connected"
                 /\ h_connect' = [h_connect EXCEPT !.welcome = TRUE,
                                                   !.welcome_read = TRUE]
            ELSE /\ m_session_addr' = pkt.src
                 /\ UNCHANGED <<m_connected, m_sessions, c_pc, h_connect>>
    /\ UNCHANGED <<m_server_main_addr, c_key, hello_i, net_srv, running,
                   last_req, n_connect, n_req>>
    /\ UNCHANGED notSess

\* Client::wait_for_packet times out.  After a PING the cache entry is erased
\* and the handshake begins; after a HELLO the next HELLO is sent, and connect
\* fails after the third.
WaitTimeout ==
    /\ c_pc \in {"ping_wait", "hello_wait"}
    /\ IF c_pc = "ping_wait"
       THEN /\ m_sessions' = Erased(m_sessions, c_key)
            /\ HandshakeBegin(c_key)
            /\ h_connect' = [h_connect EXCEPT !.ping_failed = TRUE]
       ELSE /\ IF hello_i < HELLO_TRIES
               THEN /\ hello_i' = hello_i + 1
                    /\ net_srv' = net_srv \cup {ToServer("HELLO", m_server_main_addr)}
                    /\ UNCHANGED c_pc
               ELSE /\ c_pc' = "idle"
                    /\ UNCHANGED <<hello_i, net_srv>>
            /\ UNCHANGED <<m_sessions, m_session_addr, m_connected, h_connect>>
    /\ UNCHANGED <<m_server_main_addr, c_key, net_cli, running, last_req,
                   n_connect, n_req>>
    /\ UNCHANGED notSess

\* Client::send_request: the request goes to m_session_addr
send_request ==
    /\ c_pc = "connected"
    /\ n_req < MaxReq
    /\ n_req' = n_req + 1
    /\ net_srv' = net_srv \cup {ToServer("REQ", m_session_addr)}
    /\ last_req' = m_session_addr
    /\ c_pc' = "reply_wait"
    /\ UNCHANGED <<m_sessions, m_session_addr, m_server_main_addr, m_connected, c_key,
                   hello_i, net_cli, running, h_connect, n_connect>>
    /\ UNCHANGED notSess

\* The wait for the reply (wait_for_packet(CMD_OK), recv_bulk, blast_data): a
\* datagram is read, its source stored in m_session_addr
ReplyRecv(pkt) ==
    /\ c_pc = "reply_wait"
    /\ pkt \in net_cli
    /\ net_cli' = net_cli \ {pkt}
    /\ m_session_addr' = pkt.src
    /\ c_pc' = IF pkt.t = "OK" THEN "connected" ELSE "reply_wait"
    /\ h_connect' = [h_connect EXCEPT !.welcome_read = @ \/ pkt.t = "WELCOME"]
    /\ UNCHANGED <<m_sessions, m_server_main_addr, m_connected, c_key, hello_i,
                   net_srv, running, last_req, n_connect, n_req>>
    /\ UNCHANGED notSess

\* The wait for the reply times out: the request has failed
ReplyTimeout ==
    /\ c_pc = "reply_wait"
    /\ c_pc' = "connected"
    /\ UNCHANGED <<m_sessions, m_session_addr, m_server_main_addr, m_connected, c_key,
                   hello_i, net_srv, net_cli, running, last_req, h_connect,
                   n_connect, n_req>>
    /\ UNCHANGED notSess

\* The sync engine is done with this peer
Leave ==
    /\ c_pc = "connected"
    /\ c_pc' = "idle"
    /\ UNCHANGED <<m_sessions, m_session_addr, m_server_main_addr, m_connected, c_key,
                   hello_i, net_srv, net_cli, running, last_req, h_connect,
                   n_connect, n_req>>
    /\ UNCHANGED notSess

\* Server::threadedFunction: every HELLO read on the main port creates a
\* ClientSession, which binds an ephemeral port and sends WELCOME
ServerHello(h) ==
    /\ ToServer("HELLO", Addr(h, MAIN)) \in net_srv
    /\ next_port <= MaxSess
    /\ net_srv' = net_srv \ {ToServer("HELLO", Addr(h, MAIN))}
    /\ running' = running \cup {Addr(h, next_port)}
    /\ net_cli' = net_cli \cup {ToClient("WELCOME", Addr(h, next_port))}
    /\ UNCHANGED <<m_sessions, m_session_addr, m_server_main_addr, m_connected, c_key,
                   c_pc, hello_i, last_req, h_connect, n_connect, n_req>>
    /\ UNCHANGED notSess

\* ClientSession::run: PING is answered with PONG, a request with its reply
SessionServe(pkt) ==
    /\ pkt \in net_srv
    /\ pkt.dst \in running
    /\ pkt.t \in {"PING", "REQ"}
    /\ net_srv' = net_srv \ {pkt}
    /\ net_cli' = net_cli \cup {ToClient(IF pkt.t = "PING" THEN "PONG" ELSE "OK", pkt.dst)}
    /\ UNCHANGED <<m_sessions, m_session_addr, m_server_main_addr, m_connected, c_key,
                   c_pc, hello_i, running, last_req, h_connect, n_connect,
                   n_req>>
    /\ UNCHANGED notSess

\* A datagram is lost (also: it was sent to a port nobody listens on)
Drop ==
    /\ \/ \E pkt \in net_srv : net_srv' = net_srv \ {pkt} /\ UNCHANGED net_cli
       \/ \E pkt \in net_cli : net_cli' = net_cli \ {pkt} /\ UNCHANGED net_srv
    /\ UNCHANGED <<m_sessions, m_session_addr, m_server_main_addr, m_connected, c_key,
                   c_pc, hello_i, running, last_req, h_connect, n_connect,
                   n_req>>
    /\ UNCHANGED notSess

InitSess ==
    /\ m_sessions = [k \in {} |-> NoAddr]
    /\ m_session_addr = NoAddr
    /\ m_server_main_addr = NoAddr
    /\ m_connected = FALSE
    /\ c_key = "none"
    /\ c_pc = "idle"
    /\ hello_i = 0
    /\ net_srv = {}
    /\ net_cli = {}
    /\ running = {}
    /\ last_req = NoAddr
    /\ h_connect = NoHistory
    /\ n_connect = 0
    /\ n_req = 0

NextSess ==
    \/ \E host \in Servers : connect(host)
    \/ \E pkt \in net_cli : WaitRecv(pkt)
    \/ WaitTimeout
    \/ send_request
    \/ \E pkt \in net_cli : ReplyRecv(pkt)
    \/ ReplyTimeout
    \/ Leave
    \/ \E h \in Servers : ServerHello(h)
    \/ \E pkt \in net_srv : SessionServe(pkt)
    \/ Drop

(***************************************************************************)
(* Claims about client sessions                                            *)
(***************************************************************************)
\* C7: when a cached session has been reused on a PONG and no WELCOME has
\* been read since, every request goes to the session endpoint that the
\* WELCOME of the handshake recorded in the cache.
C7_ReusedSessionKeepsEndpoint ==
    (last_req # NoAddr /\ h_connect.cached /\ h_connect.pong /\ ~h_connect.welcome_read)
        => (c_key \in DOMAIN m_sessions /\ last_req = m_sessions[c_key])

\* C8: connect pings a cached session at its cached endpoint; the client is
\* connected (and sends requests) only after a PONG was read for the cached
\* session or after a WELCOME was read; once the PING has timed out the cache
\* entry is gone and nothing is sent before a WELCOME is read.
C8_PingBeforeReuse ==
    /\ c_pc = "ping_wait" =>
           (c_key \in DOMAIN m_sessions /\ h_connect.pinged = m_sessions[c_key])
    /\ (c_pc \in {"connected", "reply_wait"} \/ last_req # NoAddr) =>
           \/ h_connect.cached /\ h_connect.pong /\ ~h_connect.ping_failed
           \/ h_connect.welcome
    /\ (h_connect.ping_failed /\ ~h_connect.welcome) =>
           (c_key \notin DOMAIN m_sessions /\ last_req = NoAddr)

\* A cached session did not answer its PING, the entry was erased and the
\* handshake completed; the client is connected again.
C8_Witness ==
    /\ c_pc = "connected"
    /\ h_connect.cached /\ h_connect.ping_failed /\ h_connect.welcome
    /\ c_key \in DOMAIN m_sessions

\* The datagrams a step of the client has read
ReadBy == net_cli \ net_cli'

\* C40: a HELLO sent again by the same client creates no additional
\* server-side handler: the sessions alive on the servers are at most as many
\* as the handshakes the client has made.
C40_OneHandlerPerHandshake == Cardinality(running) <= n_connect

\* C34: while the client works on peer c_key, every request goes to the
\* session endpoint the peer announced in WELCOME, a datagram that is read
\* never moves the endpoint away from it, and a PONG or OK is accepted only
\* from that endpoint.
C34_SendsStayWithPeer ==
    [][ /\ n_req' = n_req + 1 =>
               (c_key \in DOMAIN m_sessions /\ last_req' = m_sessions[c_key])
        /\ (c_pc \in {"connected", "reply_wait"} /\ c_pc' \in {"connected", "reply_wait"}) =>
               m_session_addr' = m_session_addr
        /\ (c_pc \in {"ping_wait", "reply_wait"} /\ c_pc' = "connected") =>
               \A pkt \in ReadBy : pkt.src = m_sessions[c_key]
      ]_vars

(***************************************************************************)
(* Server digest cache: get_cached_md5, invalidate_md5 and the handlers    *)
(* list_directory, receive_file, delete_file of concurrent sessions        *)
(***************************************************************************)
MaxMut == 2                   \* PUTs and DELETEs
Handlers == {1, 2}            \* the ClientSession threads of one Server
NoEntry == -1                 \* m_md5_cache.count(key) = 0
EmptyHash == 0                \* the empty string get_cached_md5 returns for an unreadable file

\* A mutation starts: the LISTs in progress are concurrent with it
Disturbed(clean) == [t \in Handlers |-> FALSE]

\* list_directory reaches the file: a regular file gets an entry, whose digest
\* get_cached_md5 returns from the cache when the key is present
ListLookup(s) ==
    /\ s_pc[s] = "idle"
    /\ s_clean' = [s_clean EXCEPT ![s] = \A t \in Handlers : s_pc[t] # "invalidate"]
    /\ IF srv_file = Absent
       THEN /\ s_report' = [s_report EXCEPT ![s] = Absent]
            /\ s_pc' = [s_pc EXCEPT ![s] = "reported"]
       ELSE IF m_md5_cache # NoEntry
            THEN /\ s_report' = [s_report EXCEPT ![s] = m_md5_cache]
                 /\ s_pc' = [s_pc EXCEPT ![s] = "reported"]
            ELSE /\ s_pc' = [s_pc EXCEPT ![s] = "hash"]
                 /\ UNCHANGED s_report
    /\ UNCHANGED <<srv_file, m_md5_cache, s_hash, n_mut>>
    /\ UNCHANGED notMd5

\* get_cached_md5 outside the lock: the file is read and hashed
ListHash(s) ==
    /\ s_pc[s] = "hash"
    /\ s_hash' = [s_hash EXCEPT ![s] = IF srv_file = Absent THEN EmptyHash ELSE srv_file]
    /\ s_pc' = [s_pc EXCEPT ![s] = "store"]
    /\ UNCHANGED <<srv_file, m_md5_cache, s_report, s_clean, n_mut>>
    /\ UNCHANGED notMd5

\* get_cached_md5 under the lock again: m_md5_cache[key] = hash; return hash
ListStore(s) ==
    /\ s_pc[s] = "store"
    /\ m_md5_cache' = s_hash[s]
    /\ s_report' = [s_report EXCEPT ![s] = s_hash[s]]
    /\ s_pc' = [s_pc EXCEPT ![s] = "reported"]
    /\ UNCHANGED <<srv_file, s_hash, s_clean, n_mut>>
    /\ UNCHANGED notMd5

\* The listing has been sent
ListEnd(s) ==
    /\ s_pc[s] = "reported"
    /\ s_pc' = [s_pc EXCEPT ![s] = "idle"]
    /\ UNCHANGED <<srv_file, m_md5_cache, s_hash, s_report, s_clean, n_mut>>
    /\ UNCHANGED notMd5

\* receive_file: fopen, fwrite, fclose
PutWrite(s, d) ==
    /\ s_pc[s] = "idle"
    /\ n_mut < MaxMut
    /\ n_mut' = n_mut + 1
    /\ srv_file' = d
    /\ s_clean' = Disturbed(s_clean)
    /\ s_pc' = [s_pc EXCEPT ![s] = "invalidate"]
    /\ UNCHANGED <<m_md5_cache, s_hash, s_report>>
    /\ UNCHANGED notMd5

\* delete_file: fs::remove
DeleteRemove(s) ==
    /\ s_pc[s] = "idle"
    /\ n_mut < MaxMut
    /\ n_mut' = n_mut + 1
    /\ srv_file' = Absent
    /\ s_clean' = Disturbed(s_clean)
    /\ s_pc' = [s_pc EXCEPT ![s] = "invalidate"]
    /\ UNCHANGED <<m_md5_cache, s_hash, s_report>>
    /\ UNCHANGED notMd5

\* invalidate_md5, the last step of receive_file and of delete_file
invalidate_md5(s) ==
    /\ s_pc[s] = "invalidate"
    /\ m_md5_cache' = NoEntry
    /\ s_pc' = [s_pc EXCEPT ![s] = "idle"]
    /\ UNCHANGED <<srv_file, s_hash, s_report, s_clean, n_mut>>
    /\ UNCHANGED notMd5

InitMd5 ==
    /\ srv_file = 1
    /\ m_md5_cache = NoEntry
    /\ s_pc = [s \in Handlers |-> "idle"]
    /\ s_hash = [s \in Handlers |-> EmptyHash]
    /\ s_report = [s \in Handlers |-> Absent]
    /\ s_clean = [s \in Handlers |-> FALSE]
    /\ n_mut = 0

NextMd5 ==
    \/ \E s \in Handlers : ListLookup(s)
    \/ \E s \in Handlers : ListHash(s)
    \/ \E s \in Handlers : ListStore(s)
    \/ \E s \in Handlers : ListEnd(s)
    \/ \E s \in Handlers, d \in Digests : PutWrite(s, d)
    \/ \E s \in Handlers : DeleteRemove(s)
    \/ \E s \in Handlers : invalidate_md5(s)

(***************************************************************************)
(* Claims about the digest cache                                           *)
(***************************************************************************)
\* C14: a LIST that began when no PUT or DELETE was in progress, and during
\* which none began, reports the digest of the file's present content, or
\* omits the file when it is absent.
C14_ListReportsCurrentDigest ==
    \A s \in Handlers :
        (s_pc[s] = "reported" /\ s_clean[s]) => s_report[s] = srv_file

(***************************************************************************)
(* Server session lifetime: ClientSession::run, send_bulk_data,            *)
(* receive_file and receive_bulk_data with a client that may fall silent   *)
(***************************************************************************)
MaxSent == 3                  \* datagrams sent by the client

Cmd(t) == [t |-> t, s |-> 0]
ClientDatagrams ==
    {Cmd(t) : t \in {"HELLO", "PING", "LIST", "GET", "PUT", "DELETE", "SIZE"}}
        \cup {DATA(s) : s \in Seqs} \cup {NACK(s) : s \in Seqs} \cup {DONE}

\* The client sends a datagram to the session
ClientSends(pkt) ==
    /\ ~i_silent
    /\ n_sent < MaxSent
    /\ n_sent' = n_sent + 1
    /\ i_inbox' = i_inbox \cup {pkt}
    /\ UNCHANGED <<i_pc, i_rx, i_out, i_tick, i_silent>>
    /\ UNCHANGED notIdle

\* The client stops sending: it crashed, was switched off or left the network
ClientFallsSilent ==
    /\ ~i_silent
    /\ i_silent' = TRUE
    /\ UNCHANGED <<i_pc, i_rx, i_inbox, i_out, i_tick, n_sent>>
    /\ UNCHANGED notIdle

\* A datagram to the session is lost
InboxLoss(pkt) ==
    /\ pkt \in i_inbox
    /\ i_inbox' = i_inbox \ {pkt}
    /\ UNCHANGED <<i_pc, i_rx, i_out, i_tick, i_silent, n_sent>>
    /\ UNCHANGED notIdle

\* ClientSession::run, lines 246-257: a datagram is read and dispatched.
\* list_directory and send_file send their chunks and enter the CMD_DONE loop
\* of send_bulk_data; receive_file acknowledges and waits for CMD_SIZE.
RunRecv(pkt) ==
    /\ i_pc = "run"
    /\ pkt \in i_inbox
    /\ i_inbox' = i_inbox \ {pkt}
    /\ i_pc' = CASE pkt.t \in {"LIST", "GET"} -> "send_bulk"
                 [] pkt.t = "PUT" -> "put_size"
                 [] OTHER -> "run"
    /\ i_out' = CASE pkt.t = "HELLO" -> "WELCOME"
                  [] pkt.t = "PING" -> "PONG"
                  [] pkt.t \in {"LIST", "GET"} -> "DONE"
                  [] pkt.t \in {"PUT", "DELETE"} -> "OK"
                  [] OTHER -> i_out
    /\ i_rx' = {}
    /\ UNCHANGED <<i_tick, i_silent, n_sent>>
    /\ UNCHANGED notIdle

\* ClientSession::run, lines 258-263: ten seconds without a datagram; the loop
\* ends, delete this closes the socket
RunTimeout ==
    /\ i_pc = "run"
    /\ i_pc' = "closed"
    /\ i_tick' = ~i_tick
    /\ UNCHANGED <<i_rx, i_inbox, i_out, i_silent, n_sent>>
    /\ UNCHANGED notIdle

\* send_bulk_data, lines 380-400: a datagram is read in the while(true) loop
SendBulkRecv(pkt) ==
    /\ i_pc = "send_bulk"
    /\ pkt \in i_inbox
    /\ i_inbox' = i_inbox \ {pkt}
    /\ i_pc' = IF pkt.t = "DONE" THEN "run" ELSE "send_bulk"
    /\ i_out' = IF pkt.t = "NACK" THEN "DATA" ELSE "DONE"
    /\ UNCHANGED <<i_rx, i_tick, i_silent, n_sent>>
    /\ UNCHANGED notIdle

\* send_bulk_data: the 200 ms select times out; the loop sends CMD_DONE again
SendBulkTimeout ==
    /\ i_pc = "send_bulk"
    /\ i_out' = "DONE"
    /\ i_tick' = ~i_tick
    /\ UNCHANGED <<i_pc, i_rx, i_inbox, i_silent, n_sent>>
    /\ UNCHANGED notIdle

\* receive_file, lines 320-333: the wait for CMD_SIZE
PutSizeRecv(pkt) ==
    /\ i_pc = "put_size"
    /\ pkt \in i_inbox
    /\ i_inbox' = i_inbox \ {pkt}
    /\ i_pc' = IF pkt.t = "SIZE" THEN "recv_bulk" ELSE "put_size"
    /\ UNCHANGED <<i_rx, i_out, i_tick, i_silent, n_sent>>
    /\ UNCHANGED notIdle

\* receive_file, line 335: two seconds without CMD_SIZE, the handler returns
PutSizeTimeout ==
    /\ i_pc = "put_size"
    /\ i_pc' = "run"
    /\ i_tick' = ~i_tick
    /\ UNCHANGED <<i_rx, i_inbox, i_out, i_silent, n_sent>>
    /\ UNCHANGED notIdle

\* receive_bulk_data, lines 413-424: a datagram is read; after the last chunk
\* CMD_DONE is sent and the handler returns
RecvBulkRecv(pkt) ==
    /\ i_pc = "recv_bulk"
    /\ pkt \in i_inbox
    /\ i_inbox' = i_inbox \ {pkt}
    /\ i_rx' = IF pkt.t = "DATA" THEN i_rx \cup {pkt.s} ELSE i_rx
    /\ IF i_rx' = Seqs
       THEN i_pc' = "run" /\ i_out' = "DONE"
       ELSE UNCHANGED <<i_pc, i_out>>
    /\ UNCHANGED <<i_tick, i_silent, n_sent>>
    /\ UNCHANGED notIdle

\* receive_bulk_data, lines 425-434: the 500 ms select times out; the missing
\* chunks are NACKed and the while(cnt < chunks) loop goes on
RecvBulkTimeout ==
    /\ i_pc = "recv_bulk"
    /\ i_out' = "NACK"
    /\ i_tick' = ~i_tick
    /\ UNCHANGED <<i_pc, i_rx, i_inbox, i_silent, n_sent>>
    /\ UNCHANGED notIdle

InitIdle ==
    /\ i_pc = "run"
    /\ i_rx = {}
    /\ i_inbox = {}
    /\ i_out = "WELCOME"
    /\ i_tick = FALSE
    /\ i_silent = FALSE
    /\ n_sent = 0

\* The steps of the session's thread
SessionThread ==
    \/ \E pkt \in i_inbox : RunRecv(pkt)
    \/ RunTimeout
    \/ \E pkt \in i_inbox : SendBulkRecv(pkt)
    \/ SendBulkTimeout
    \/ \E pkt \in i_inbox : PutSizeRecv(pkt)
    \/ PutSizeTimeout
    \/ \E pkt \in i_inbox : RecvBulkRecv(pkt)
    \/ RecvBulkTimeout

NextIdle ==
    \/ SessionThread
    \/ \E pkt \in ClientDatagrams : ClientSends(pkt)
    \/ ClientFallsSilent
    \/ \E pkt \in i_inbox : InboxLoss(pkt)

(***************************************************************************)
(* Claims about the session lifetime                                       *)
(***************************************************************************)
\* C15: once the client is silent and none of its datagrams is left, the
\* session handler ends and closes its socket, whatever it was executing.
C15_SilentClientEndsSession ==
    (i_silent /\ i_inbox = {}) ~> (i_pc = "closed")

(***************************************************************************)
(* Handoff server (sync.h): Server::threadedFunction, ClientHandler::run,  *)
(* Client::negotiate_handoff and Client::list, without datagram loss       *)
(***************************************************************************)
MaxCalls == 2                 \* client calls
UDP_HEADER_SIZE == 9
HANDOFF_RETRIES == 3
HANDOFF_PAYLOAD == 4

NoCall == [cmd |-> "NONE", arg |-> ""]
NoResult == [ok |-> FALSE, list |-> {}]

\* Bytes of an argument: the paths are one character long, list() passes ""
ArgLen(arg) == IF arg = "" THEN 0 ELSE 1

\* Length of the datagram pack_header and memcpy build in negotiate_handoff
RequestLen(arg) == UDP_HEADER_SIZE + ArgLen(arg)

\* One line of list_directory: rel_path | size | md5
ListEntry(p) == [rel_path |-> p, size |-> hd_root[p], md5 |-> hd_root[p]]
list_directory == {ListEntry(p) : p \in Entries(hd_root)}

\* Client::list, Client::download and Client::remove enter
\* send_cmd_and_get_response
ClientCall(cmd, arg) ==
    /\ hd_cpc = "idle"
    /\ n_calls < MaxCalls
    /\ n_calls' = n_calls + 1
    /\ hd_call' = [cmd |-> cmd, arg |-> arg]
    /\ hd_retries' = 0
    /\ hd_cpc' = "send"
    /\ hd_result' = NoResult
    /\ UNCHANGED <<hd_root, hd_main, hd_handler, hd_cli>>
    /\ UNCHANGED notHand

\* negotiate_handoff, lines 728-739: the request goes to the main server
NegotiateSend ==
    /\ hd_cpc = "send"
    /\ hd_retries < HANDOFF_RETRIES
    /\ hd_retries' = hd_retries + 1
    /\ hd_main' = hd_main \cup {[cmd |-> hd_call.cmd, arg |-> hd_call.arg,
                                 len |-> RequestLen(hd_call.arg)]}
    /\ hd_cpc' = "wait"
    /\ UNCHANGED <<hd_root, hd_call, hd_handler, hd_cli, hd_result, n_calls>>
    /\ UNCHANGED notHand

\* negotiate_handoff: the retries are used up; send_cmd_and_get_response
\* returns false and list() returns its empty result
NegotiateFail ==
    /\ hd_cpc = "send"
    /\ hd_retries >= HANDOFF_RETRIES
    /\ hd_cpc' = "returned"
    /\ hd_result' = NoResult
    /\ UNCHANGED <<hd_root, hd_call, hd_retries, hd_main, hd_handler, hd_cli, n_calls>>
    /\ UNCHANGED notHand

\* Server::threadedFunction, lines 242-253: a datagram is read from the
\* listening socket; a handler is spawned when len > UDP_HEADER_SIZE
ServerRecv(pkt) ==
    /\ pkt \in hd_main
    /\ hd_main' = hd_main \ {pkt}
    /\ hd_handler' = IF pkt.len > UDP_HEADER_SIZE
                     THEN hd_handler \cup {pkt}
                     ELSE hd_handler
    /\ UNCHANGED <<hd_root, hd_cpc, hd_call, hd_retries, hd_cli, hd_result, n_calls>>
    /\ UNCHANGED notHand

\* ClientHandler::run: the handoff is sent, the initial request is executed
\* and its answer sent from the ephemeral port
HandlerRun(pkt) ==
    /\ pkt \in hd_handler
    /\ hd_handler' = hd_handler \ {pkt}
    /\ hd_root' = IF pkt.cmd = "DELETE"
                  THEN [hd_root EXCEPT ![pkt.arg] = Absent]
                  ELSE hd_root
    /\ hd_cli' = hd_cli \cup
          {[len |-> UDP_HEADER_SIZE + HANDOFF_PAYLOAD, cmd |-> pkt.cmd,
            ok |-> pkt.cmd # "GET" \/ hd_root[pkt.arg] # Absent,
            list |-> IF pkt.cmd = "LIST" THEN list_directory ELSE {}]}
    /\ UNCHANGED <<hd_cpc, hd_call, hd_retries, hd_main, hd_result, n_calls>>
    /\ UNCHANGED notHand

\* negotiate_handoff, lines 745-758, then receive_bulk or wait_for_packet:
\* the handoff and the handler's answer reach the client
NegotiateRecv(pkt) ==
    /\ hd_cpc = "wait"
    /\ pkt \in hd_cli
    /\ pkt.len > UDP_HEADER_SIZE
    /\ hd_cli' = hd_cli \ {pkt}
    /\ hd_cpc' = "returned"
    /\ hd_result' = [ok |-> pkt.ok, list |-> pkt.list]
    /\ UNCHANGED <<hd_root, hd_call, hd_retries, hd_main, hd_handler, n_calls>>
    /\ UNCHANGED notHand

\* negotiate_handoff: 500 ms pass without a datagram. No datagram is lost and
\* the server is running, so this happens only when no answer is on its way.
NegotiateTimeout ==
    /\ hd_cpc = "wait"
    /\ hd_main = {} /\ hd_handler = {} /\ hd_cli = {}
    /\ hd_cpc' = "send"
    /\ UNCHANGED <<hd_root, hd_call, hd_retries, hd_main, hd_handler, hd_cli,
                   hd_result, n_calls>>
    /\ UNCHANGED notHand

\* A file is written under the server root before the client's calls
RootWrite(p, d) ==
    /\ n_calls = 0
    /\ hd_root[p] # d
    /\ hd_root' = [hd_root EXCEPT ![p] = d]
    /\ UNCHANGED <<hd_cpc, hd_call, hd_retries, hd_main, hd_handler, hd_cli, hd_result, n_calls>>
    /\ UNCHANGED notHand

\* The caller takes the result
CallEnd ==
    /\ hd_cpc = "returned"
    /\ hd_cpc' = "idle"
    /\ hd_call' = NoCall
    /\ UNCHANGED <<hd_root, hd_retries, hd_main, hd_handler, hd_cli, hd_result, n_calls>>
    /\ UNCHANGED notHand

InitHand ==
    /\ hd_root = [p \in Paths |-> Absent]
    /\ hd_cpc = "idle"
    /\ hd_call = NoCall
    /\ hd_retries = 0
    /\ hd_main = {}
    /\ hd_handler = {}
    /\ hd_cli = {}
    /\ hd_result = NoResult
    /\ n_calls = 0

NextHand ==
    \/ ClientCall("LIST", "")
    \/ \E p \in Paths : ClientCall("GET", p) \/ ClientCall("DELETE", p)
    \/ NegotiateSend
    \/ NegotiateFail
    \/ \E pkt \in hd_main : ServerRecv(pkt)
    \/ \E pkt \in hd_handler : HandlerRun(pkt)
    \/ \E pkt \in hd_cli : NegotiateRecv(pkt)
    \/ NegotiateTimeout
    \/ CallEnd
    \/ \E p \in Paths, d \in Digests : RootWrite(p, d)

(***************************************************************************)
(* Claims about the handoff server                                         *)
(***************************************************************************)
\* C16: without datagram loss a LIST call returns one entry per regular file
\* under the server root; it returns an empty listing only when the root
\* holds no file.
C16_ListReturnsEveryFile ==
    (hd_cpc = "returned" /\ hd_call.cmd = "LIST") => hd_result.list = list_directory

(***************************************************************************)
(* Heartbeat variant: ofApp::update, ofApp::reloadProject, the role keys   *)
(* and the senders of Network.h.  The node's own broadcasts reach its own  *)
(* listener, which is bound to the broadcast port.                         *)
(***************************************************************************)
MaxNow == 6                   \* seconds observed
TIME_STEP == 3                \* seconds between two observations of the clock
MaxWire == 1                  \* frames the socket buffer holds
MaxChunks == 1                \* chunks counted in incoming.current
PEER_TIMEOUT == 5
NoPeer == -1
NoDoc == 0                    \* no warps.json
LOCAL_HASH == 1               \* TinyMD5::getFileMD5 of the local media file
NodeIds == {"n1", "n2"}       \* ids of eight characters, as Identity::setup enforces
DeltaTypes == {"WARP", "STRUCT"}
FrameTypes == {"HEARTBEAT", "FILE_OFFER", "FILE_CHUNK", "FILE_END"} \cup DeltaTypes

\* Network::setup runs once, with the id of the first project: net.myId
net_myId == "n1"
\* The other node on the network
remote_id == "n2"

\* fillHeader: the frame is stamped with the first eight characters of net.myId
fillHeader(type, val) == [type |-> type, senderId |-> net_myId, val |-> val, own |-> TRUE]

\* A frame of the other node. Only deltas and offers carry a value.
RemoteFrames ==
    {[type |-> t, senderId |-> remote_id, val |-> v, own |-> FALSE] :
        t \in DeltaTypes \cup {"FILE_OFFER"}, v \in Digests}
    \cup {[type |-> t, senderId |-> remote_id, val |-> NoDoc, own |-> FALSE] :
        t \in {"HEARTBEAT", "FILE_CHUNK", "FILE_END"}}

\* sender.Send towards a socket buffer: a frame that does not fit is lost
Send(q, f) == IF Len(q) < MaxWire THEN Append(q, f) ELSE q

\* Network::updatePeers, lines 156-166
updatePeers(peers) ==
    [k \in NodeIds |-> IF peers[k] # NoPeer /\ nd_now - peers[k] > PEER_TIMEOUT
                       THEN NoPeer ELSE peers[k]]

\* ofApp::syncFullState: the structure is sent when warps.json exists, the
\* media file is offered
syncFullState(s) ==
    IF ~nd_isMaster THEN s
    ELSE [s EXCEPT !.q = IF s.doc # NoDoc THEN Send(@, fillHeader("STRUCT", s.doc)) ELSE @,
                   !.pending = TRUE]

\* How a delta was applied
Applied(f) == (IF f.own THEN {"own"} ELSE {}) \cup
              (IF nd_isMaster THEN {"as_master"} ELSE {"as_peer"})

\* Mutant of processFrame: no loopback protection
processFrame_open(s, f) ==
    LET base == [s EXCEPT !.q = Tail(@)] IN
    CASE f.type = "HEARTBEAT" ->
             LET seen == [base EXCEPT !.peers[f.senderId] = nd_now]
             IN  IF s.peers[f.senderId] = NoPeer /\ nd_isMaster
                 THEN syncFullState(seen) ELSE seen
      [] f.type \in DeltaTypes /\ ~nd_isMaster ->
             [base EXCEPT !.doc = f.val, !.applied = @ \cup Applied(f)]
      [] f.type = "FILE_OFFER" /\ ~nd_isMaster ->
             IF LOCAL_HASH # f.val
             THEN [base EXCEPT !.inc = [active |-> TRUE, current |-> 0]]
             ELSE base
      [] f.type = "FILE_CHUNK" /\ s.inc.active ->
             [base EXCEPT !.inc.current = IF @ < MaxChunks THEN @ + 1 ELSE @]
      [] f.type = "FILE_END" /\ s.inc.active ->
             [base EXCEPT !.inc.active = FALSE]
      [] OTHER -> base

\* ofApp::update, lines 94-166: one frame of the receive loop
processFrame(s, f) ==
    LET base == [s EXCEPT !.q = Tail(@)] IN
    IF f.senderId = nd_identity THEN [base EXCEPT !.dropped = TRUE]
    ELSE
    CASE f.type = "HEARTBEAT" ->
             LET seen == [base EXCEPT !.peers[f.senderId] = nd_now]
             IN  IF s.peers[f.senderId] = NoPeer /\ nd_isMaster
                 THEN syncFullState(seen) ELSE seen
      [] f.type \in DeltaTypes /\ ~nd_isMaster ->
             [base EXCEPT !.doc = f.val, !.applied = @ \cup Applied(f)]
      [] f.type = "FILE_OFFER" /\ ~nd_isMaster ->
             IF LOCAL_HASH # f.val
             THEN [base EXCEPT !.inc = [active |-> TRUE, current |-> 0]]
             ELSE base
      [] f.type = "FILE_CHUNK" /\ s.inc.active ->
             [base EXCEPT !.inc.current = IF @ < MaxChunks THEN @ + 1 ELSE @]
      [] f.type = "FILE_END" /\ s.inc.active ->
             [base EXCEPT !.inc.active = FALSE]
      [] OTHER -> base

\* ofApp::update, line 92: the loop runs until the socket buffer is empty
RECURSIVE Drain(_)
Drain(s) == IF s.q = <<>> THEN s ELSE Drain(processFrame(s, Head(s.q)))

\* The state ofApp::update starts its receive loop with, for a buffer q:
\* watcher.update has reported its changes, updatePeers has run
LoopStart(q, touched) ==
    [q |-> q, peers |-> updatePeers(nd_peers), doc |-> nd_doc,
     inc |-> nd_incoming,
     pending |-> nd_pending \/ (touched /\ nd_isMaster),
     dropped |-> h_dropped, applied |-> h_applied]

\* ofApp::update
update(touched) ==
    LET r == Drain(LoopStart(nd_wire, touched)) IN
    /\ nd_peers' = r.peers
    /\ nd_doc' = r.doc
    /\ nd_incoming' = r.inc
    /\ nd_pending' = r.pending
    /\ nd_wire' = r.q
    /\ h_dropped' = r.dropped
    /\ h_applied' = r.applied
    /\ UNCHANGED <<nd_identity, nd_isMaster, nd_now>>
    /\ UNCHANGED notNode

\* Time passes between two ticks
TimePasses ==
    /\ nd_now + TIME_STEP <= MaxNow
    /\ nd_now' = nd_now + TIME_STEP
    /\ UNCHANGED <<nd_identity, nd_isMaster, nd_peers, nd_wire, nd_doc, nd_incoming,
                   nd_pending, h_dropped, h_applied>>
    /\ UNCHANGED notNode

\* A frame of the other node arrives
FrameArrives(f) ==
    /\ Len(nd_wire) < MaxWire
    /\ nd_wire' = Send(nd_wire, f)
    /\ UNCHANGED <<nd_identity, nd_isMaster, nd_peers, nd_now, nd_doc, nd_incoming,
                   nd_pending, h_dropped, h_applied>>
    /\ UNCHANGED notNode

\* Network::sendHeartbeat, from the network thread
sendHeartbeat ==
    /\ Len(nd_wire) < MaxWire
    /\ nd_wire' = Send(nd_wire, fillHeader("HEARTBEAT", NoDoc))
    /\ UNCHANGED <<nd_identity, nd_isMaster, nd_peers, nd_now, nd_doc, nd_incoming,
                   nd_pending, h_dropped, h_applied>>
    /\ UNCHANGED notNode

\* ofApp::mouseReleased on the master: a point is moved and Network::sendWarp
\* broadcasts it
sendWarp(v) ==
    /\ nd_isMaster
    /\ nd_doc # v
    /\ nd_doc' = v
    /\ nd_wire' = Send(nd_wire, fillHeader("WARP", v))
    /\ UNCHANGED <<nd_identity, nd_isMaster, nd_peers, nd_now, nd_incoming,
                   nd_pending, h_dropped, h_applied>>
    /\ UNCHANGED notNode

\* ofApp::keyPressed: 'm' makes the node master and broadcasts the full state,
\* 'p' makes it a peer
setRole(master) ==
    /\ nd_isMaster # master
    /\ nd_isMaster' = master
    /\ IF master
       THEN /\ nd_wire' = IF nd_doc # NoDoc
                          THEN Send(nd_wire, fillHeader("STRUCT", nd_doc)) ELSE nd_wire
            /\ nd_pending' = TRUE
       ELSE UNCHANGED <<nd_wire, nd_pending>>
    /\ UNCHANGED <<nd_identity, nd_peers, nd_now, nd_doc, nd_incoming,
                   h_dropped, h_applied>>
    /\ UNCHANGED notNode

\* Network::threadedFunction and transferFile: the offer, the chunk and the end
\* frame of a pending file are broadcast
transferFile ==
    /\ nd_pending
    /\ nd_pending' = FALSE
    /\ nd_wire' = Send(Send(Send(nd_wire, fillHeader("FILE_OFFER", LOCAL_HASH)),
                                 fillHeader("FILE_CHUNK", NoDoc)),
                                 fillHeader("FILE_END", NoDoc))
    /\ UNCHANGED <<nd_identity, nd_isMaster, nd_peers, nd_now, nd_doc, nd_incoming,
                   h_dropped, h_applied>>
    /\ UNCHANGED notNode

\* ofApp::reloadProject from the Reload button: Identity::setup reads the id of
\* the project's config.json, the warper loads the project's warps.json;
\* Network::setup is not run again, net.myId stays
reloadProject(id, doc) ==
    /\ nd_identity # id
    /\ nd_identity' = id
    /\ nd_doc' = doc
    /\ UNCHANGED <<nd_isMaster, nd_peers, nd_now, nd_wire, nd_incoming, nd_pending,
                   h_dropped, h_applied>>
    /\ UNCHANGED notNode

InitNode ==
    /\ nd_identity = net_myId
    /\ nd_isMaster = FALSE
    /\ nd_peers = [k \in NodeIds |-> NoPeer]
    /\ nd_now = 0
    /\ nd_wire = <<>>
    /\ nd_doc = NoDoc
    /\ nd_incoming = [active |-> FALSE, current |-> 0]
    /\ nd_pending = FALSE
    /\ h_dropped = FALSE
    /\ h_applied = {}

NextNode ==
    \/ \E touched \in BOOLEAN : update(touched)
    \/ TimePasses
    \/ \E f \in RemoteFrames : FrameArrives(f)
    \/ sendHeartbeat
    \/ \E v \in Digests : sendWarp(v)
    \/ \E master \in BOOLEAN : setRole(master)
    \/ transferFile
    \/ \E id \in NodeIds, doc \in {NoDoc} \cup Digests : reloadProject(id, doc)

(***************************************************************************)
(* Claims about the heartbeat variant                                      *)
(***************************************************************************)
\* The frames of a buffer that do not carry the local node id
NotFromSelf(q) == SelectSeq(q, LAMBDA f : f.senderId # nd_identity)

\* C17: a frame whose sender id equals the local node id is discarded before
\* any processing by type: a tick leaves the peer map, the mapping document
\* and the incoming file transfer exactly as if those frames had never arrived.
C17_SelfFramesDiscarded ==
    [][ \A touched \in BOOLEAN :
          (update(touched) /\ nd_wire # <<>>) =>
             LET r == Drain(LoopStart(NotFromSelf(nd_wire), touched))
             IN  /\ nd_peers' = r.peers
                 /\ nd_doc' = r.doc
                 /\ nd_incoming' = r.inc ]_vars

\* C17 witness: a frame was dropped by the loopback protection while another
\* node's heartbeat was recorded
C17_Witness ==
    /\ h_dropped
    /\ nd_wire = <<>>
    /\ nd_peers[remote_id] # NoPeer
    /\ nd_identity = net_myId

\* C18: POINT_EDIT and STRUCTURE_SNAPSHOT frames are transmitted only by a
\* master and applied only by a peer, whatever the role toggles, and a node
\* never applies a delta it sent itself.
C18_DeltasFollowRole ==
    [][ /\ \A i \in (Len(nd_wire) + 1)..Len(nd_wire') :
              (nd_wire'[i].own /\ nd_wire'[i].type \in DeltaTypes) => nd_isMaster'
        /\ (h_applied' # h_applied) => ~nd_isMaster
        /\ "as_master" \notin h_applied'
        /\ "own" \notin h_applied' ]_vars

(***************************************************************************)
(* Messenger of the sync variant: Coms::setup and Coms::process.  Its peer *)
(* map is the one handed to the sync engine (syncToPeers, setPeers).       *)
(***************************************************************************)
ComsIds == {"u1", "u2"}
uid == "u1"                   \* the local id
broadcast_uid == "00"
NoMessage == [from |-> "", to |-> "", command |-> ""]
ComsCommands == {"ANNOUNCE", "ANNOUNCE_REPLY", "MAPPING"}

\* sendMessage and sendBroadcastMessage: uid, target, command
Messages == [from : ComsIds, to : ComsIds \cup {broadcast_uid}, command : ComsCommands]

\* Coms::setup: the node's own record is stored; Peer::last_seen is not set,
\* so the record holds whatever the stack held
setup(garbage) ==
    /\ ~cm_up
    /\ cm_up' = TRUE
    /\ cm_peers' = [cm_peers EXCEPT ![uid] = garbage]
    /\ UNCHANGED <<cm_now, cm_inbox, cm_stack, cm_out, cm_reply, cm_polled>>
    /\ UNCHANGED notComs

\* A datagram reaches the listener: a peer's, or the node's own broadcast
ComsArrives(msg) ==
    /\ cm_up
    /\ cm_inbox = NoMessage
    /\ cm_inbox' = msg
    /\ UNCHANGED <<cm_up, cm_peers, cm_now, cm_stack, cm_out, cm_reply, cm_polled>>
    /\ UNCHANGED notComs

\* Coms::process, lines 81-144, for the text messageIn found in udpMessage
processMessage(messageIn) ==
    /\ IF messageIn # NoMessage /\ messageIn.from # uid
       THEN /\ cm_peers' = [cm_peers EXCEPT ![messageIn.from] = cm_now]
            /\ IF messageIn.to \in {broadcast_uid, uid}
               THEN /\ cm_out' = <<messageIn>>
                    /\ cm_reply' = (messageIn.command = "ANNOUNCE")
               ELSE /\ cm_out' = <<>>
                    /\ cm_reply' = FALSE
       ELSE /\ cm_out' = <<>>
            /\ cm_reply' = FALSE
            /\ UNCHANGED cm_peers

\* Coms::process: the listener does not block. With a datagram udpMessage
\* holds it; without one udpMessage is read uninitialised, and holds nothing
\* or what an earlier call left on the stack.
process(leftover) ==
    /\ cm_up
    /\ IF cm_inbox # NoMessage
       THEN processMessage(cm_inbox) /\ cm_stack' = cm_inbox
       ELSE processMessage(leftover) /\ UNCHANGED cm_stack
    /\ cm_inbox' = NoMessage
    /\ cm_polled' = TRUE
    /\ UNCHANGED <<cm_up, cm_now>>
    /\ UNCHANGED notComs

\* Time passes between two calls of process
ComsTimePasses ==
    /\ cm_up
    /\ cm_now + TIME_STEP <= MaxNow
    /\ cm_now' = cm_now + TIME_STEP
    /\ cm_polled' = FALSE
    /\ UNCHANGED <<cm_up, cm_peers, cm_inbox, cm_stack, cm_out, cm_reply>>
    /\ UNCHANGED notComs

InitComs ==
    /\ cm_up = FALSE
    /\ cm_peers = [k \in ComsIds |-> NoPeer]
    /\ cm_now = 0
    /\ cm_inbox = NoMessage
    /\ cm_stack = NoMessage
    /\ cm_out = <<>>
    /\ cm_reply = FALSE
    /\ cm_polled = FALSE

NextComs ==
    \/ \E garbage \in {0, MaxNow} : setup(garbage)
    \/ \E msg \in Messages : ComsArrives(msg)
    \/ \E leftover \in {NoMessage, cm_stack} : process(leftover)
    \/ ComsTimePasses

(***************************************************************************)
(* Claims about the peer map                                               *)
(***************************************************************************)
\* C19: at the end of every update tick every record of the peer map has
\* now - last_seen <= 5 s, so a peer whose heartbeats stopped is gone from
\* the peer map, and from the peer set handed to the sync engine, at the
\* first tick after the timeout.
C19_PeerRecordsAreFresh ==
    cm_polled =>
        \A k \in ComsIds \ {uid} :
            cm_peers[k] # NoPeer => cm_now - cm_peers[k] <= PEER_TIMEOUT

(***************************************************************************)
(* Media watcher: MediaWatcher::scan, threadLoop and update                *)
(***************************************************************************)
MaxClock == 6                 \* scan intervals observed
MaxWrites == 3                \* file system operations
MaxEvents == 2                \* events counted per path
settleTime == 1               \* settlingMs (250) in scan intervals (200), rounded down
TimeMin == -1                 \* fs::file_time_type::min()
NoMd5 == 0                    \* the empty last_md5 of a new PathInfo
NoFile == [mtime |-> TimeMin, md5 |-> NoMd5, readable |-> FALSE]
NotWatched == [last_md5 |-> NoMd5, lastTime |-> TimeMin, candidateTime |-> TimeMin,
               stabilizationStart |-> TimeMin, isSettling |-> FALSE, tracked |-> FALSE]

\* Relative paths, as character strings
WatchPaths == {<<"a">>, <<"b", ".", "t", "m", "p">>}
WatchOrder == <<<<"a">>, <<"b", ".", "t", "m", "p">>>>

\* scan, line 153: the last four characters are ".tmp"
IsTmp(relStr) ==
    Len(relStr) >= 4 /\ SubSeq(relStr, Len(relStr) - 3, Len(relStr)) = <<".", "t", "m", "p">>

\* Mutant of scanFile: the digest of a file that cannot be read is taken as is
scanFile_blind(info, f, now) ==
    IF ~info.tracked
    THEN [info |-> [last_md5 |-> NoMd5, lastTime |-> TimeMin, candidateTime |-> f.mtime,
                    stabilizationStart |-> now, isSettling |-> TRUE, tracked |-> TRUE],
          changed |-> FALSE]
    ELSE IF f.mtime # info.lastTime
    THEN IF ~info.isSettling
         THEN [info |-> [info EXCEPT !.isSettling = TRUE, !.candidateTime = f.mtime,
                                     !.stabilizationStart = now],
               changed |-> FALSE]
         ELSE IF f.mtime # info.candidateTime
         THEN [info |-> [info EXCEPT !.candidateTime = f.mtime, !.stabilizationStart = now],
               changed |-> FALSE]
         ELSE IF now - info.stabilizationStart > settleTime
         THEN [info |-> [info EXCEPT !.last_md5 = f.md5, !.lastTime = f.mtime,
                                     !.isSettling = FALSE],
               changed |-> f.md5 # info.last_md5]
         ELSE [info |-> info, changed |-> FALSE]
    ELSE [info |-> [info EXCEPT !.isSettling = FALSE], changed |-> FALSE]

\* Mutant of scanFile: a changed mtime does not restart the settling window
scanFile_running(info, f, now) ==
    IF ~info.tracked
    THEN [info |-> [last_md5 |-> NoMd5, lastTime |-> TimeMin, candidateTime |-> f.mtime,
                    stabilizationStart |-> now, isSettling |-> TRUE, tracked |-> TRUE],
          changed |-> FALSE]
    ELSE IF f.mtime # info.lastTime
    THEN IF ~info.isSettling
         THEN [info |-> [info EXCEPT !.isSettling = TRUE, !.candidateTime = f.mtime,
                                     !.stabilizationStart = now],
               changed |-> FALSE]
         ELSE IF f.mtime # info.candidateTime
         THEN [info |-> [info EXCEPT !.candidateTime = f.mtime], changed |-> FALSE]
         ELSE IF now - info.stabilizationStart > settleTime /\ f.readable
         THEN [info |-> [info EXCEPT !.last_md5 = f.md5, !.lastTime = f.mtime,
                                     !.isSettling = FALSE],
               changed |-> f.md5 # info.last_md5]
         ELSE [info |-> info, changed |-> FALSE]
    ELSE [info |-> [info EXCEPT !.isSettling = FALSE], changed |-> FALSE]

\* Mutant of scanFile: a stable candidate is reported at every scan
scanFile_again(info, f, now) ==
    IF ~info.tracked
    THEN [info |-> [last_md5 |-> NoMd5, lastTime |-> TimeMin, candidateTime |-> f.mtime,
                    stabilizationStart |-> now, isSettling |-> TRUE, tracked |-> TRUE],
          changed |-> FALSE]
    ELSE IF info.isSettling /\ f.mtime = info.candidateTime
              /\ now - info.stabilizationStart > settleTime /\ f.readable
         THEN [info |-> [info EXCEPT !.last_md5 = f.md5], changed |-> TRUE]
         ELSE [info |-> info, changed |-> FALSE]

\* scan, lines 161-210, for one regular file f that is not skipped: the new
\* PathInfo and whether the path is reported
scanFile(info, f, now) ==
    IF ~info.tracked
    THEN [info |-> [last_md5 |-> NoMd5, lastTime |-> TimeMin, candidateTime |-> f.mtime,
                    stabilizationStart |-> now, isSettling |-> TRUE, tracked |-> TRUE],
          changed |-> FALSE]
    ELSE IF f.mtime # info.lastTime
    THEN IF ~info.isSettling
         THEN [info |-> [info EXCEPT !.isSettling = TRUE, !.candidateTime = f.mtime,
                                     !.stabilizationStart = now],
               changed |-> FALSE]
         ELSE IF f.mtime # info.candidateTime
         THEN [info |-> [info EXCEPT !.candidateTime = f.mtime, !.stabilizationStart = now],
               changed |-> FALSE]
         ELSE IF now - info.stabilizationStart > settleTime /\ f.readable
         THEN [info |-> [info EXCEPT !.last_md5 = f.md5, !.lastTime = f.mtime,
                                     !.isSettling = FALSE],
               changed |-> f.md5 # info.last_md5]
         ELSE [info |-> info, changed |-> FALSE]
    ELSE [info |-> [info EXCEPT !.isSettling = FALSE], changed |-> FALSE]

\* scan: the files the directory walk looks at
Scanned == {p \in WatchPaths : w_disk[p] # NoFile /\ ~IsTmp(p)}

\* MediaWatcher::threadLoop: one scan, then the sleep until the next one. The
\* thread never stops; the clock is observed up to MaxClock.
threadLoop ==
    /\ LET res == [p \in Scanned |-> scanFile(watchedFiles[p], w_disk[p], w_clock)]
           localChanges == SeqOf(WatchOrder, {p \in Scanned : res[p].changed})
       IN  /\ watchedFiles' = [p \in WatchPaths |->
                                  IF p \in Scanned THEN res[p].info ELSE NotWatched]
           /\ eventQueue' = eventQueue \o localChanges
           /\ h_lastMd5' = [p \in WatchPaths |->
                  IF p \in Scanned /\ res[p].changed THEN w_disk[p].md5 ELSE h_lastMd5[p]]
           /\ h_burst' = [p \in WatchPaths |->
                  IF p \in Scanned /\ res[p].changed /\ h_burst[p].events < MaxEvents
                  THEN [h_burst[p] EXCEPT !.events = @ + 1] ELSE h_burst[p]]
    /\ w_clock' = IF w_clock < MaxClock THEN w_clock + 1 ELSE w_clock
    /\ w_scans' = ~w_scans
    /\ UNCHANGED <<w_disk, h_emitted, h_life, n_writes>>
    /\ UNCHANGED notWatch

\* MediaWatcher::update: the queued paths are handed to filesChanged
watcher_update ==
    /\ eventQueue # <<>>
    /\ eventQueue' = <<>>
    /\ h_emitted' = [p \in WatchPaths |->
          LET n == h_emitted[p] + Len(SelectSeq(eventQueue, LAMBDA q : q = p))
          IN  IF n > MaxEvents THEN MaxEvents ELSE n]
    /\ UNCHANGED <<w_disk, w_clock, w_scans, watchedFiles, h_life, n_writes, h_lastMd5, h_burst>>
    /\ UNCHANGED notWatch

\* A write to p continues a burst: the file exists and its previous write is
\* no more than the settle time old
InBurst(p) == w_disk[p] # NoFile /\ w_clock - w_disk[p].mtime <= settleTime

\* A file is created or written again; its mtime is the time of the write
FileWrite(p, d, r) ==
    /\ n_writes < MaxWrites
    /\ n_writes' = n_writes + 1
    /\ w_disk' = [w_disk EXCEPT ![p] = [mtime |-> w_clock, md5 |-> d, readable |-> r]]
    /\ h_life' = [h_life EXCEPT ![p] = IF @ = "none" THEN "created" ELSE "touched"]
    /\ h_burst' = [h_burst EXCEPT ![p] = IF InBurst(p) THEN [@ EXCEPT !.writes = @ + 1]
                                                       ELSE [writes |-> 1, events |-> 0]]
    /\ UNCHANGED <<w_clock, w_scans, watchedFiles, eventQueue, h_emitted, h_lastMd5>>
    /\ UNCHANGED notWatch

\* A file is removed
FileRemove(p) ==
    /\ n_writes < MaxWrites
    /\ w_disk[p] # NoFile
    /\ n_writes' = n_writes + 1
    /\ w_disk' = [w_disk EXCEPT ![p] = NoFile]
    /\ h_life' = [h_life EXCEPT ![p] = "touched"]
    /\ UNCHANGED <<w_clock, w_scans, watchedFiles, eventQueue, h_emitted, h_lastMd5, h_burst>>
    /\ UNCHANGED notWatch

\* The writer of a file closes it: the file can be read, its mtime stays
FileRelease(p) ==
    /\ w_disk[p] # NoFile
    /\ ~w_disk[p].readable
    /\ w_disk' = [w_disk EXCEPT ![p].readable = TRUE]
    /\ UNCHANGED <<w_clock, w_scans, watchedFiles, eventQueue, h_emitted, h_life, n_writes,
                   h_lastMd5, h_burst>>
    /\ UNCHANGED notWatch

InitWatch ==
    /\ w_disk = [p \in WatchPaths |-> NoFile]
    /\ w_clock = 0
    /\ w_scans = FALSE
    /\ watchedFiles = [p \in WatchPaths |-> NotWatched]
    /\ eventQueue = <<>>
    /\ h_emitted = [p \in WatchPaths |-> 0]
    /\ h_life = [p \in WatchPaths |-> "none"]
    /\ n_writes = 0
    /\ h_lastMd5 = [p \in WatchPaths |-> NoMd5]
    /\ h_burst = [p \in WatchPaths |-> [writes |-> 0, events |-> 0]]

NextWatch ==
    \/ threadLoop
    \/ watcher_update
    \/ \E p \in WatchPaths, d \in Digests, r \in BOOLEAN : FileWrite(p, d, r)
    \/ \E p \in WatchPaths : FileRemove(p) \/ FileRelease(p)

(***************************************************************************)
(* Claims about the media watcher                                          *)
(***************************************************************************)
\* Events of path p, notified or still queued
Events(p) == h_emitted[p] + Len(SelectSeq(eventQueue, LAMBDA q : q = p))

\* p was created once and has not been written or removed since
Untouched(p) == h_life[p] = "created"

Emits(p) ==
    Len(SelectSeq(eventQueue', LAMBDA q : q = p)) > Len(SelectSeq(eventQueue, LAMBDA q : q = p))

\* C21: every change event for a path is for a file digest different from the
\* digest at the previous event for that path; a write, or a delete followed
\* by a re-creation, that leaves the digest unchanged produces no event.
C21_EventsFollowDigest ==
    [][\A p \in WatchPaths : Emits(p) => w_disk[p].md5 # h_lastMd5[p]]_vars

\* A scan step in which the mtime of the tracked file p is seen to have changed
SeesChange(p) ==
    /\ w_scans' # w_scans
    /\ p \in Scanned
    /\ watchedFiles[p].tracked
    /\ w_disk[p].mtime # watchedFiles[p].lastTime
    /\ watchedFiles[p].isSettling => w_disk[p].mtime # watchedFiles[p].candidateTime

\* C22: no event for a file whose mtime changed within the settle time; every
\* observed mtime change restarts the settling window; a burst of writes
\* (each at most the settle time after the one before) and the quiescence
\* after it bring at most one event, and exactly one once the file can be read
\* and holds another digest than at its previous event.
C22_BurstGivesOneEvent ==
    /\ [][\A p \in WatchPaths :
            /\ Emits(p) => w_clock - w_disk[p].mtime > settleTime
            /\ SeesChange(p) => /\ ~Emits(p)
                                /\ watchedFiles'[p].isSettling
                                /\ watchedFiles'[p].candidateTime = w_disk[p].mtime
                                /\ watchedFiles'[p].stabilizationStart = w_clock]_vars
    /\ [](\A p \in WatchPaths : h_burst[p].events <= 1)
    /\ \A p \in {q \in WatchPaths : ~IsTmp(q)} :
          (/\ n_writes = MaxWrites /\ Scanned = {p} /\ w_disk[p].readable
           /\ w_disk[p].md5 # h_lastMd5[p]
           /\ w_clock + settleTime + 2 <= MaxClock)
             ~> (h_burst[p].events = 1 /\ h_emitted[p] >= 1)

\* C22 witness: three writes of one burst, then one event
C22_Witness ==
    \E p \in WatchPaths :
        /\ h_burst[p] = [writes |-> 3, events |-> 1]
        /\ h_emitted[p] = 1
        /\ w_clock >= w_disk[p].mtime + settleTime + 3

(***************************************************************************)
(* Path watcher: ofWatcher::addPath, scan and update                       *)
(***************************************************************************)
MaxOfwClock == 4              \* scan intervals observed
MaxOfwOps == 3                \* file system operations
OfwNone == [lastTime |-> TimeMin, exists |-> FALSE, candidateTime |-> TimeMin,
            stabilizationStart |-> TimeMin, isSettling |-> FALSE]

\* ofWatcher::addFileInternal
addFileInternal(ftime) ==
    [lastTime |-> ftime, exists |-> TRUE, candidateTime |-> ftime,
     stabilizationStart |-> TimeMin, isSettling |-> FALSE]

\* ofWatcher::addPath for the root directory
addPath ==
    /\ ~ow_roots
    /\ ow_roots' = TRUE
    /\ ow_files' = [p \in Paths |->
          IF ow_disk[p] # TimeMin THEN addFileInternal(ow_disk[p]) ELSE ow_files[p]]
    /\ UNCHANGED <<ow_disk, ow_clock, ow_scans, ow_queue, n_ofw>>
    /\ UNCHANGED notOfw

\* scan, step 1, for one tracked path: the new PathInfo and whether the path
\* is reported
scanTracked(info, diskTime, now) ==
    IF diskTime = TimeMin
    THEN [info |-> OfwNone, changed |-> info.exists]
    ELSE IF diskTime # info.lastTime
    THEN IF ~info.isSettling
         THEN [info |-> [info EXCEPT !.isSettling = TRUE, !.candidateTime = diskTime,
                                     !.stabilizationStart = now],
               changed |-> FALSE]
         ELSE IF diskTime # info.candidateTime
         THEN [info |-> [info EXCEPT !.candidateTime = diskTime, !.stabilizationStart = now],
               changed |-> FALSE]
         ELSE IF now - info.stabilizationStart > settleTime
         THEN [info |-> [info EXCEPT !.lastTime = diskTime, !.isSettling = FALSE],
               changed |-> TRUE]
         ELSE [info |-> info, changed |-> FALSE]
    ELSE [info |-> [info EXCEPT !.isSettling = FALSE], changed |-> FALSE]

\* scan, step 2: a file of a watched root that is not tracked
discovered(diskTime, now) ==
    [lastTime |-> TimeMin, exists |-> TRUE, candidateTime |-> diskTime,
     stabilizationStart |-> now, isSettling |-> TRUE]

\* ofWatcher::threadLoop: one scan, then the sleep until the next one
ofWatcher_scan ==
    /\ LET Tracked == {p \in Paths : ow_files[p].exists}
           res == [p \in Tracked |-> scanTracked(ow_files[p], ow_disk[p], ow_clock)]
           step1 == [p \in Paths |-> IF p \in Tracked THEN res[p].info ELSE ow_files[p]]
           localChanges == SeqOf(<<"a", "b">>, {p \in Tracked : res[p].changed})
       IN  /\ ow_files' = [p \in Paths |->
                  IF ow_roots /\ ow_disk[p] # TimeMin /\ ~step1[p].exists
                  THEN discovered(ow_disk[p], ow_clock) ELSE step1[p]]
           /\ ow_queue' = ow_queue \o localChanges
    /\ ow_clock' = IF ow_clock < MaxOfwClock THEN ow_clock + 1 ELSE ow_clock
    /\ ow_scans' = ~ow_scans
    /\ UNCHANGED <<ow_disk, ow_roots, n_ofw>>
    /\ UNCHANGED notOfw

\* ofWatcher::update: the queued paths are handed to filesChanged
ofWatcher_update ==
    /\ ow_queue # <<>>
    /\ ow_queue' = <<>>
    /\ UNCHANGED <<ow_disk, ow_clock, ow_scans, ow_roots, ow_files, n_ofw>>
    /\ UNCHANGED notOfw

\* A file is created or written again
OfwWrite(p) ==
    /\ n_ofw < MaxOfwOps
    /\ n_ofw' = n_ofw + 1
    /\ ow_disk' = [ow_disk EXCEPT ![p] = ow_clock]
    /\ UNCHANGED <<ow_clock, ow_scans, ow_roots, ow_files, ow_queue>>
    /\ UNCHANGED notOfw

\* A file is removed
OfwRemove(p) ==
    /\ n_ofw < MaxOfwOps
    /\ ow_disk[p] # TimeMin
    /\ n_ofw' = n_ofw + 1
    /\ ow_disk' = [ow_disk EXCEPT ![p] = TimeMin]
    /\ UNCHANGED <<ow_clock, ow_scans, ow_roots, ow_files, ow_queue>>
    /\ UNCHANGED notOfw

InitOfw ==
    /\ ow_disk = [p \in Paths |-> TimeMin]
    /\ ow_clock = 0
    /\ ow_scans = FALSE
    /\ ow_roots = FALSE
    /\ ow_files = [p \in Paths |-> OfwNone]
    /\ ow_queue = <<>>
    /\ n_ofw = 0

NextOfw ==
    \/ addPath
    \/ ofWatcher_scan
    \/ ofWatcher_update
    \/ \E p \in Paths : OfwWrite(p) \/ OfwRemove(p)

(***************************************************************************)
(* Claims about vanished files                                             *)
(***************************************************************************)
\* C23: when a tracked file has disappeared, the scan that notices it removes
\* the watcher entry and queues no change event for the path.
C23_VanishedFilesAreSilent ==
    [][\A p \in Paths :
          (ow_scans' # ow_scans /\ ow_files[p].exists /\ ow_disk[p] = TimeMin)
             => /\ ~ow_files'[p].exists
                /\ Len(SelectSeq(ow_queue', LAMBDA q : q = p))
                     = Len(SelectSeq(ow_queue, LAMBDA q : q = p))]_vars

\* C23 in the media watcher: the entry of a vanished file is erased and the
\* scan queues nothing for it
C23_MediaWatcherIsSilent ==
    [][\A p \in WatchPaths :
          (w_scans' # w_scans /\ watchedFiles[p].tracked /\ w_disk[p] = NoFile)
             => ~watchedFiles'[p].tracked /\ ~Emits(p)]_vars

\* The candidate of p has settled: its mtime is the candidate's and the
\* settling window has passed
SettledCandidate(p) ==
    /\ p \in Scanned
    /\ watchedFiles[p].tracked /\ watchedFiles[p].isSettling
    /\ w_disk[p].mtime = watchedFiles[p].candidateTime
    /\ w_clock - watchedFiles[p].stabilizationStart > settleTime

\* C24: a scan that finds a settled candidate it cannot read queues no event
\* for the path and leaves its entry as it was (settling, confirmed mtime and
\* digest unchanged); once the file can be read and is left alone, a later
\* scan confirms it.
C24_UnreadableKeepsSettling ==
    /\ [][\A p \in WatchPaths :
            (w_scans' # w_scans /\ SettledCandidate(p) /\ ~w_disk[p].readable)
               => ~Emits(p) /\ watchedFiles'[p] = watchedFiles[p]]_vars
    /\ \A p \in {q \in WatchPaths : ~IsTmp(q)} :
          (/\ SettledCandidate(p) /\ w_disk[p].readable /\ n_writes = MaxWrites
           /\ w_clock + 1 <= MaxClock)
             ~> (/\ ~watchedFiles[p].isSettling
                 /\ watchedFiles[p].lastTime = w_disk[p].mtime
                 /\ watchedFiles[p].last_md5 = w_disk[p].md5)

\* C24 witness: a settled candidate that cannot be read has been through a
\* scan and is still settling, with nothing confirmed and no event
C24_Witness ==
    \E p \in WatchPaths :
        /\ SettledCandidate(p) /\ ~w_disk[p].readable
        /\ w_clock - watchedFiles[p].stabilizationStart >= settleTime + 2
        /\ watchedFiles[p].lastTime = TimeMin /\ watchedFiles[p].last_md5 = NoMd5
        /\ Events(p) = 0

(***************************************************************************)
(* Receiver of a media file: ofApp::update, FILE_OFFER, FILE_CHUNK and     *)
(* FILE_END on a peer                                                      *)
(***************************************************************************)
MaxFrames == 4                \* frames received
U16 == 65536                  \* 2^16: a uint32_t is kept as two 16-bit halves
ZeroHash == 0                 \* the 32 zeros of a file that cannot be opened
DJB2_SEED == 5381             \* TinyMD5::getFileMD5, the start value of the hash
NoContent == <<-1>>
RecvNames == {<<"a">>, <<"b">>}
Bytes == {1, 2}

\* uint32_t values and their arithmetic
w32(hi, lo) == [hi |-> hi, lo |-> lo]
add32(a, s) ==
    LET lo == a.lo + s
    IN  [hi |-> (a.hi + (lo \div U16)) % U16, lo |-> lo % U16]
le32(a, b) == a.hi < b.hi \/ (a.hi = b.hi /\ a.lo <= b.lo)

\* offset + size <= total over the integers
FitsInt(offset, size, total) ==
    LET lo == offset.lo + size
        hi == offset.hi + (lo \div U16)
    IN  hi < U16 /\ le32(w32(hi, lo % U16), total)

\* TinyMD5::getFileMD5 of a content: hash = hash * 33 + c from 5381
RECURSIVE Djb2(_)
Djb2(c) == IF c = <<>> THEN DJB2_SEED ELSE Djb2(SubSeq(c, 1, Len(c) - 1)) * 33 + c[Len(c)]

getFileMD5(media, path) == IF media[path] = NoContent THEN ZeroHash ELSE Djb2(media[path])

\* Mutant of tmpPath: the buffer is written to the final path
tmpPath_final(finalPath) == finalPath

\* FILE_END: tmpPath = finalPath + ".tmp"
tmpPath(finalPath) == finalPath \o <<".", "t", "m", "p">>

RecvPaths == RecvNames \cup {tmpPath(n) : n \in RecvNames}

\* The files the master holds and the frames a transfer of them is made of
MasterContents == {<<1>>, <<2, 2>>}
Offer(n, c) == [type |-> "FILE_OFFER", name |-> n, hash |-> Djb2(c),
                totalSize |-> w32(0, Len(c))]
Chunk(o, s, v) == [type |-> "FILE_CHUNK", offset |-> o, size |-> s, payload |-> v]
End == [type |-> "FILE_END"]
transferFrames(n, c) ==
    <<Offer(n, c)>> \o [i \in 1..Len(c) |-> Chunk(w32(0, i - 1), 1, c[i])] \o <<End>>

\* The frames the network can deliver: every 32-bit offset of interest
Offsets == {w32(0, 0), w32(0, 1), w32(0, 2), w32(U16 - 1, U16 - 1)}
Sizes == {1, 2}
RecvFrames ==
    {Offer(n, c) : n \in RecvNames, c \in MasterContents}
      \cup {Chunk(o, s, v) : o \in Offsets, s \in Sizes, v \in Bytes}
      \cup {End}

NoIncoming == [active |-> FALSE, name |-> <<"a">>, total |-> w32(0, 0), current |-> 0,
               buf |-> <<>>]

\* FILE_CHUNK, the test of line 155, computed in uint32_t
Accepts(inc, f) == le32(add32(f.offset, f.size), inc.total)

\* memcpy(buf + offset, payload, size), for a range inside the buffer
memcpy(buf, offset, size, v) ==
    [i \in 1..Len(buf) |-> IF i > offset.lo /\ i <= offset.lo + size THEN v ELSE buf[i]]

\* ofApp::update for one frame of a peer (not master), up to the write of
\* FILE_END: the new incoming, and whether a memcpy left the buffer
handleFrame(inc, media, f) ==
    IF f.type = "FILE_OFFER"
    THEN IF getFileMD5(media, f.name) # f.hash
         THEN [inc |-> [active |-> TRUE, name |-> f.name, total |-> f.totalSize,
                        current |-> 0, buf |-> [i \in 1..f.totalSize.lo |-> 0]],
               outside |-> FALSE, end |-> FALSE]
         ELSE [inc |-> inc, outside |-> FALSE, end |-> FALSE]
    ELSE IF f.type = "FILE_CHUNK" /\ inc.active
    THEN IF Accepts(inc, f)
         THEN IF FitsInt(f.offset, f.size, inc.total)
              THEN [inc |-> [inc EXCEPT !.buf = memcpy(inc.buf, f.offset, f.size, f.payload),
                                        !.current = @ + f.size],
                    outside |-> FALSE, end |-> FALSE]
              ELSE [inc |-> [inc EXCEPT !.current = @ + f.size],
                    outside |-> TRUE, end |-> FALSE]
         ELSE [inc |-> inc, outside |-> FALSE, end |-> FALSE]
    ELSE IF f.type = "FILE_END" /\ inc.active
    THEN [inc |-> [inc EXCEPT !.active = FALSE], outside |-> FALSE, end |-> TRUE]
    ELSE [inc |-> inc, outside |-> FALSE, end |-> FALSE]

\* The frame f is received and handled. A memcpy outside the buffer is
\* undefined: the process goes on or ends. FILE_END creates the .tmp file.
Handled(f) ==
    LET r == handleFrame(rc_incoming, rc_disk, f)
    IN  /\ rc_incoming' = r.inc
        /\ h_outside' = (h_outside \/ r.outside)
        /\ rc_disk' = IF r.end THEN [rc_disk EXCEPT ![tmpPath(r.inc.name)] = <<>>]
                               ELSE rc_disk
        /\ IF r.end THEN rc_pc' = "write"
           ELSE IF r.outside THEN rc_pc' \in {"run", "crashed"}
           ELSE rc_pc' = "run"
        /\ n_frames' = n_frames + 1

receiveFrame(f) ==
    /\ rc_pc = "run"
    /\ n_frames < MaxFrames
    /\ rc_replay = <<>>
    /\ Handled(f)
    /\ UNCHANGED rc_replay
    /\ UNCHANGED notRecv

\* The network delivers once more the whole sequence of a file the peer holds
replaySequence(n) ==
    /\ rc_pc = "run"
    /\ rc_replay = <<>>
    /\ rc_disk[n] \in MasterContents
    /\ n_frames + Len(transferFrames(n, rc_disk[n])) <= MaxFrames
    /\ rc_replay' = transferFrames(n, rc_disk[n])
    /\ UNCHANGED <<rc_disk, rc_incoming, rc_pc, h_outside, n_frames>>
    /\ UNCHANGED notRecv

receiveReplay ==
    /\ rc_pc = "run"
    /\ rc_replay # <<>>
    /\ Handled(Head(rc_replay))
    /\ rc_replay' = Tail(rc_replay)
    /\ UNCHANGED notRecv

\* FILE_END, ofBufferToFile(tmpPath, incoming.buf): the file grows to the buffer
ofBufferToFile ==
    /\ rc_pc = "write"
    /\ LET tmp == tmpPath(rc_incoming.name)
           k == Len(rc_disk[tmp])
       IN  IF k < Len(rc_incoming.buf)
           THEN /\ rc_disk' = [rc_disk EXCEPT ![tmp] = Append(@, rc_incoming.buf[k + 1])]
                /\ rc_pc' = IF k + 1 = Len(rc_incoming.buf) THEN "rename" ELSE "write"
           ELSE /\ rc_pc' = "rename"
                /\ UNCHANGED rc_disk
    /\ UNCHANGED <<rc_incoming, rc_replay, h_outside, n_frames>>
    /\ UNCHANGED notRecv

\* FILE_END, ofFile(tmpPath).renameTo(finalPath, true, true)
renameTo ==
    /\ rc_pc = "rename"
    /\ LET tmp == tmpPath(rc_incoming.name)
       IN  rc_disk' = [p \in RecvPaths |->
                          IF p = rc_incoming.name THEN rc_disk[tmp]
                          ELSE IF p = tmp THEN NoContent ELSE rc_disk[p]]
    /\ rc_pc' = "run"
    /\ UNCHANGED <<rc_incoming, rc_replay, h_outside, n_frames>>
    /\ UNCHANGED notRecv

\* MediaWatcher::scan, the files the directory walk registers
Visible == {p \in RecvPaths : rc_disk[p] # NoContent /\ ~IsTmp(p)}

InitRecv ==
    /\ rc_disk = [p \in RecvPaths |-> IF p = <<"a">> THEN <<1>> ELSE NoContent]
    /\ rc_incoming = NoIncoming
    /\ rc_pc = "run"
    /\ rc_replay = <<>>
    /\ h_outside = FALSE
    /\ n_frames = 0

NextRecv ==
    \/ \E f \in RecvFrames : receiveFrame(f)
    \/ \E n \in RecvNames : replaySequence(n)
    \/ receiveReplay
    \/ ofBufferToFile
    \/ renameTo

(***************************************************************************)
(* Claims about the receiver                                               *)
(***************************************************************************)
\* A frame of a replayed sequence is handled in this step
ReplayStep == rc_replay # <<>> /\ rc_replay' = Tail(rc_replay)

\* C25: an offer whose digest is the local digest of the named file leaves the
\* receiving state as it is (not receiving when it was not), and no frame of a
\* replayed sequence of a file the peer already holds writes to the disk,
\* whatever the transfer state at the time of the replay.
C25_ReplayWritesNothing ==
    [][/\ \A f \in RecvFrames :
             (f.type = "FILE_OFFER" /\ getFileMD5(rc_disk, f.name) = f.hash)
                => handleFrame(rc_incoming, rc_disk, f).inc = rc_incoming
       /\ ReplayStep => rc_disk' = rc_disk /\ rc_pc' = "run"]_vars

\* C26: a chunk is copied into the buffer exactly if offset + size <= total
\* over the integers, and no chunk is copied outside the buffer.
C26_ChunksStayInBuffer ==
    /\ \A f \in RecvFrames :
          (f.type = "FILE_CHUNK" /\ rc_incoming.active)
             => (Accepts(rc_incoming, f) <=> FitsInt(f.offset, f.size, rc_incoming.total))
    /\ ~h_outside

\* C27: FILE_END while receiving clears the receiving state and writes the
\* buffer to <name>.tmp, which is then renamed over <name>; the content of
\* <name> changes only by that rename, to the whole buffer; the .tmp file is
\* gone afterwards and the watcher's directory walk never registers it.
C27_EndCommitsByRename ==
    /\ [][/\ handleFrame(rc_incoming, rc_disk, End).end = rc_incoming.active
          /\ rc_pc' = "write" /\ rc_pc = "run"
                => /\ rc_incoming.active /\ ~rc_incoming'.active
                   /\ rc_disk'[tmpPath(rc_incoming.name)] = <<>>
          /\ \A n \in RecvNames : rc_disk'[n] # rc_disk[n]
                => /\ rc_pc = "rename" /\ n = rc_incoming.name
                   /\ rc_disk'[n] = rc_incoming.buf
                   /\ rc_disk[tmpPath(n)] = rc_incoming.buf]_vars
    /\ [](Visible \subseteq RecvNames)
    /\ (rc_pc = "write")
          ~> (/\ rc_pc = "run"
              /\ rc_disk[rc_incoming.name] = rc_incoming.buf
              /\ rc_disk[tmpPath(rc_incoming.name)] = NoContent)

\* C27 witness: file b has been received whole and renamed into place
C27_Witness ==
    /\ rc_pc = "run" /\ ~rc_incoming.active
    /\ rc_incoming.name = <<"b">> /\ rc_incoming.buf = <<2, 2>>
    /\ rc_disk[<<"b">>] = <<2, 2>>
    /\ rc_disk[tmpPath(<<"b">>)] = NoContent

\* C35: whenever FILE_END makes <name> change on the peer, the bytes written
\* are the master's content of the offer accepted for <name>: a content of
\* the master, of the offered size, every byte of it received.
C35_CommittedIsOfferedContent ==
    [][\A n \in RecvNames :
          rc_disk'[n] # rc_disk[n]
             => /\ rc_disk'[n] \in MasterContents
                /\ Len(rc_disk'[n]) = rc_incoming.total.lo
                /\ rc_incoming.current = Len(rc_disk'[n])]_vars

(***************************************************************************)
(* Mapping document: WarpSurface, WarpController and the STRUCTURE_SNAPSHOT *)
(* and POINT_EDIT branches of ofApp::update                                *)
(***************************************************************************)
MaxWarpOps == 3               \* operations of the master
MaxLayers == 2                \* surfaces of the master
GRID == 1                     \* rows and cols of a new surface: setup(3, 3), scaled to 1
EDIT_NONE == 0
EDIT_TEXTURE == 1
EDIT_MAPPING == 2
NoPoint == -1                 \* selectedPoint when no point is selected
SurfaceIds == {"1000"}         \* ids ofRandom gives
Coord == 0..GRID              \* a coordinate k stands for k / GRID
NullJson == [kind |-> "null"]           \* the dump of an empty ofJson
Garbage == [kind |-> "garbage"]         \* a payload ofJson::parse rejects
NoFrame == [type |-> "none"]

\* WarpSurface::setup: the vertices of a rows x cols grid, row by row
setupGrid(rows, cols) ==
    [i \in 1..((rows + 1) * (cols + 1)) |->
        [x |-> (((i - 1) % (cols + 1)) * GRID) \div cols,
         y |-> (((i - 1) \div (cols + 1)) * GRID) \div rows]]

\* WarpSurface::WarpSurface(owner), with the id ofRandom gave
WarpSurface(owner, id) ==
    [id |-> id, ownerId |-> owner, rows |-> GRID, cols |-> GRID,
     geo |-> setupGrid(GRID, GRID), tex |-> setupGrid(GRID, GRID), selectedPoint |-> NoPoint]

\* WarpSurface::updatePoint
updatePoint(s, pt, x, y, mode) ==
    IF mode = EDIT_NONE THEN s
    ELSE IF mode = EDIT_TEXTURE
    THEN IF pt >= 0 /\ pt < Len(s.tex)
         THEN [s EXCEPT !.tex[pt + 1] = [x |-> x, y |-> y]] ELSE s
    ELSE IF pt >= 0 /\ pt < Len(s.geo)
         THEN [s EXCEPT !.geo[pt + 1] = [x |-> x, y |-> y]] ELSE s

\* WarpSurface::toJson
toJson(s) ==
    [rows |-> s.rows, cols |-> s.cols, id |-> s.id, owner |-> s.ownerId,
     geo |-> s.geo, tex |-> s.tex, numbers |-> TRUE]

\* Mutant of fromJson: the texture grid is not read
fromJson_geo(j) ==
    LET Fill(def, src) == [i \in 1..Len(def) |-> IF i <= Len(src) THEN src[i] ELSE def[i]]
    IN  [id |-> j.id, ownerId |-> j.owner, rows |-> j.rows, cols |-> j.cols,
         geo |-> Fill(setupGrid(j.rows, j.cols), j.geo),
         tex |-> setupGrid(j.rows, j.cols), selectedPoint |-> NoPoint]

\* WarpSurface::fromJson on a surface made by WarpSurface(owner): setup, then
\* the points the arrays hold, as far as the grid goes
fromJson(j) ==
    LET Fill(def, src) == [i \in 1..Len(def) |-> IF i <= Len(src) THEN src[i] ELSE def[i]]
    IN  [id |-> j.id, ownerId |-> j.owner, rows |-> j.rows, cols |-> j.cols,
         geo |-> Fill(setupGrid(j.rows, j.cols), j.geo),
         tex |-> Fill(setupGrid(j.rows, j.cols), j.tex), selectedPoint |-> NoPoint]

\* WarpController::getSurfacesForPeer
getSurfacesForPeer(all, peerId) == SelectSeq(all, LAMBDA s : s.ownerId = peerId)

OwnersOf(all) == {all[i].ownerId : i \in 1..Len(all)}

\* WarpController::sync: the surfaces grouped by owner; root.dump()
serialize(all) ==
    IF all = <<>> THEN NullJson
    ELSE [kind |-> "object",
          peers |-> [o \in OwnersOf(all) |->
                        LET sub == getSurfacesForPeer(all, o)
                        IN  [i \in 1..Len(sub) |-> toJson(sub[i])]]]

\* The layers of a parsed document in the order loadJson visits them: the
\* owners in key order, the layers of each in array order
RECURSIVE Layers(_, _)
Layers(peers, order) ==
    IF order = <<>> THEN <<>>
    ELSE (IF Head(order) \in DOMAIN peers THEN peers[Head(order)] ELSE <<>>)
            \o Layers(peers, Tail(order))

\* The layers before the first one whose points are not numbers
RECURSIVE Loadable(_)
Loadable(layers) ==
    IF layers = <<>> \/ ~Head(layers).numbers THEN <<>>
    ELSE <<Head(layers)>> \o Loadable(Tail(layers))

\* Mutant of loadJson: the surfaces held are kept
loadJson_keep(all, jStr) ==
    IF jStr = Garbage THEN all
    ELSE IF jStr.kind # "object" THEN all
    ELSE LET layers == Loadable(Layers(jStr.peers, <<"n1", "n2">>))
         IN  all \o [i \in 1..Len(layers) |-> fromJson(layers[i])]

\* WarpController::loadJson: ofJson::parse throws before anything is touched;
\* a conversion that throws in fromJson leaves what was loaded until then
loadJson(all, jStr) ==
    IF jStr = Garbage THEN all
    ELSE IF jStr.kind # "object" THEN <<>>
    ELSE LET layers == Loadable(Layers(jStr.peers, <<"n1", "n2">>))
         IN  [i \in 1..Len(layers) |-> fromJson(layers[i])]

\* The payload can be parsed and applied as a mapping document
Applicable(jStr) ==
    /\ jStr # Garbage
    /\ jStr.kind = "object" =>
          \A o \in DOMAIN jStr.peers : \A i \in 1..Len(jStr.peers[o]) : jStr.peers[o][i].numbers

\* The mapping document the surfaces stand for: owner -> its surfaces in order
Document(all) ==
    [o \in OwnersOf(all) |->
        LET sub == getSurfacesForPeer(all, o)
        IN  [i \in 1..Len(sub) |->
                [id |-> sub[i].id, rows |-> sub[i].rows, cols |-> sub[i].cols,
                 geo |-> sub[i].geo, tex |-> sub[i].tex]]]

\* Network::sendStructure of the master, with the document it stands for
StructFrame(all) == [type |-> "STRUCT", json |-> serialize(all), h_doc |-> Document(all)]

\* WarpController::sync
warper_sync(all) ==
    /\ wp_saved' = serialize(all)
    /\ wp_wire' = wp_wire \cup {StructFrame(all)}

\* WarpController::addLayer from the GUI of the master
addLayer(owner, id) ==
    /\ n_warp < MaxWarpOps
    /\ Len(wp_master) < MaxLayers
    /\ n_warp' = n_warp + 1
    /\ wp_master' = Append(wp_master, WarpSurface(owner, id))
    /\ wp_drag' = [wp_drag EXCEPT !.selectedIndex = Len(getSurfacesForPeer(wp_master', owner)) - 1]
    /\ warper_sync(wp_master')
    /\ UNCHANGED <<wp_peer, wp_file, h_last, n_handled>>
    /\ UNCHANGED notWarp

\* The GUI selects a peer, a layer and an edit mode; WarpController::mousePressed
\* then selects the point that was hit
mousePressed(target, index, mode, hit) ==
    /\ n_warp < MaxWarpOps
    /\ mode # EDIT_NONE
    /\ index < Len(getSurfacesForPeer(wp_master, target))
    /\ \A i \in 1..Len(wp_master) : wp_master[i].selectedPoint = NoPoint
    /\ n_warp' = n_warp + 1
    /\ wp_drag' = [targetPeerId |-> target, selectedIndex |-> index, editMode |-> mode]
    /\ LET k == CHOOSE i \in 1..Len(wp_master) :
                    /\ wp_master[i].ownerId = target
                    /\ Len(getSurfacesForPeer(SubSeq(wp_master, 1, i), target)) = index + 1
       IN  wp_master' = [wp_master EXCEPT ![k].selectedPoint = hit]
    /\ UNCHANGED <<wp_saved, wp_peer, wp_file, wp_wire, h_last, n_handled>>
    /\ UNCHANGED notWarp

\* The position in allSurfaces of the layer the master has selected, 0 if none
Selected ==
    LET S == {i \in 1..Len(wp_master) :
                 /\ wp_master[i].ownerId = wp_drag.targetPeerId
                 /\ Len(getSurfacesForPeer(SubSeq(wp_master, 1, i), wp_drag.targetPeerId))
                       = wp_drag.selectedIndex + 1}
    IN  IF S = {} THEN 0 ELSE CHOOSE i \in S : TRUE

\* WarpController::mouseDragged, Network::sendWarp
mouseDragged(x, y) ==
    /\ n_warp < MaxWarpOps
    /\ Selected # 0
    /\ wp_master[Selected].selectedPoint # NoPoint
    /\ n_warp' = n_warp + 1
    /\ LET s == wp_master[Selected]
       IN  /\ wp_master' = [wp_master EXCEPT
                               ![Selected] = updatePoint(s, s.selectedPoint, x, y, wp_drag.editMode)]
           /\ wp_wire' = wp_wire \cup
                 {[type |-> "WARP", ownerId |-> s.ownerId, surfaceIndex |-> wp_drag.selectedIndex,
                   mode |-> wp_drag.editMode, pointIndex |-> s.selectedPoint, x |-> x, y |-> y]}
    /\ UNCHANGED <<wp_drag, wp_saved, wp_peer, wp_file, h_last, n_handled>>
    /\ UNCHANGED notWarp

\* WarpController::mouseReleased: the end of a drag
mouseReleased ==
    /\ Selected # 0
    /\ wp_master[Selected].selectedPoint # NoPoint
    /\ wp_master' = [wp_master EXCEPT ![Selected].selectedPoint = NoPoint]
    /\ warper_sync(wp_master')
    /\ UNCHANGED <<wp_drag, wp_peer, wp_file, h_last, n_handled, n_warp>>
    /\ UNCHANGED notWarp

\* WarpController::updatePeerPoint
updatePeerPoint(all, owner, layer, mode, pt, x, y) ==
    LET S == {i \in 1..Len(all) :
                 /\ all[i].ownerId = owner
                 /\ Len(getSurfacesForPeer(SubSeq(all, 1, i), owner)) = layer + 1}
    IN  IF S = {} THEN all
        ELSE LET k == CHOOSE i \in S : TRUE
             IN  [all EXCEPT ![k] = updatePoint(all[k], pt, x, y, mode)]

\* The payloads a snapshot can arrive as when it is not the one that was
\* sent: no JSON at all, or JSON whose last layer holds a point that is no number
Damaged(jStr) ==
    {Garbage} \cup
    (IF jStr.kind # "object" THEN {}
     ELSE {[jStr EXCEPT !.peers[o][Len(jStr.peers[o])].numbers = FALSE] :
              o \in DOMAIN jStr.peers})

\* ofApp::update of the peer for one frame as it arrived: POINT_EDIT,
\* STRUCTURE_SNAPSHOT. Frames arrive in any order; one that is lost stays
\* in wp_wire.
Handle(f, g) ==
    /\ f \in wp_wire
    /\ wp_wire' = wp_wire \ {f}
    /\ h_last' = g
    /\ n_handled' = ~n_handled
    /\ IF g.type = "WARP"
       THEN /\ wp_peer' = updatePeerPoint(wp_peer, g.ownerId, g.surfaceIndex, g.mode,
                                          g.pointIndex, g.x, g.y)
            /\ UNCHANGED wp_file
       ELSE /\ wp_file' = g.json
            /\ wp_peer' = loadJson(wp_peer, g.json)
    /\ UNCHANGED <<wp_master, wp_drag, wp_saved, n_warp>>
    /\ UNCHANGED notWarp

Deliver(f) == Handle(f, f)

DeliverDamaged(f, bad) ==
    /\ f.type = "STRUCT"
    /\ bad \in Damaged(f.json)
    /\ Handle(f, [f EXCEPT !.json = bad])

InitWarp ==
    /\ wp_master = <<WarpSurface("n1", "1000")>>
    /\ wp_drag = [targetPeerId |-> "n1", selectedIndex |-> 0, editMode |-> EDIT_NONE]
    /\ wp_saved = NullJson
    /\ wp_peer = <<WarpSurface("n2", "1001")>>
    /\ wp_file = NullJson
    /\ wp_wire = {}
    /\ h_last = NoFrame
    /\ n_handled = FALSE
    /\ n_warp = 0

NextWarp ==
    \/ \E o \in NodeIds, id \in SurfaceIds : addLayer(o, id)
    \/ \E t \in NodeIds, i \in 0..(MaxLayers - 1), md \in {EDIT_TEXTURE, EDIT_MAPPING},
          hit \in 0..((GRID + 1) * (GRID + 1) - 1) : mousePressed(t, i, md, hit)
    \/ \E x \in Coord, y \in Coord : mouseDragged(x, y)
    \/ mouseReleased
    \/ \E f \in wp_wire : Deliver(f)
    \/ \E f \in {g \in wp_wire : g.type = "STRUCT"} : \E bad \in Damaged(f.json) :
          DeliverDamaged(f, bad)

(***************************************************************************)
(* Claims about the mapping document                                       *)
(***************************************************************************)
\* C28: once the peer has applied a snapshot, its document is the document the
\* master had when it sent that snapshot, whatever deltas the peer had
\* applied or missed before.
C28_SnapshotSupersedesDeltas ==
    (h_last.type = "STRUCT" /\ Applicable(h_last.json))
        => Document(wp_peer) = h_last.h_doc

\* C28 witness: the snapshot of a finished drag was applied at a peer that had
\* missed the delta, which is still in flight
C28_Witness ==
    /\ h_last.type = "STRUCT" /\ Applicable(h_last.json)
    /\ \E f \in wp_wire : f.type = "WARP"
    /\ Document(wp_peer) = Document(wp_master)
    /\ \E i \in 1..Len(wp_master) :
          wp_master[i].geo # setupGrid(GRID, GRID) \/ wp_master[i].tex # setupGrid(GRID, GRID)

\* A snapshot that cannot be applied is handled in this step
BadSnapshotStep ==
    n_handled' # n_handled /\ h_last'.type = "STRUCT" /\ ~Applicable(h_last'.json)

\* C29: a snapshot payload that cannot be parsed or applied leaves the peer's
\* surfaces and its persisted document as they were.
C29_BadSnapshotChangesNothing ==
    [][BadSnapshotStep => wp_peer' = wp_peer /\ wp_file' = wp_file]_vars

\* C30: for the surfaces of either node, serializing, loading and serializing
\* again gives the first serialization; and after a snapshot was applied the
\* peer serializes to the payload the master sent.
C30_SerializationRoundTrip ==
    /\ \A all \in {wp_master, wp_peer} :
          serialize(loadJson(<<>>, serialize(all))) = serialize(all)
    /\ (h_last.type = "STRUCT" /\ Applicable(h_last.json))
          => serialize(wp_peer) = h_last.json

\* C30 witness: a document of two owners with an edited texture point was
\* applied at the peer
C30_Witness ==
    /\ h_last.type = "STRUCT" /\ Applicable(h_last.json)
    /\ OwnersOf(wp_peer) = {"n1", "n2"}
    /\ \E i \in 1..Len(wp_peer) : wp_peer[i].tex # setupGrid(GRID, GRID)

(***************************************************************************)
(* Node identity: Identity::setup, Identity::save, ofApp::reloadProject    *)
(***************************************************************************)
MaxIdentOps == 4              \* starts, reloads and edits of a settings file
ID_LEN == 8                   \* myId.length() != 8
Projects == {"p1", "p2"}      \* project directories
NoConfig == [kind |-> "none"]
NoProject == "none"
Alnum == {"0", "A", "z"}      \* characters of [0-9A-Za-z] used by the model
OtherChars == {"-"}           \* a character outside [0-9A-Za-z]
Filled(n, c) == [i \in 1..n |-> c]

\* the alphanum table of Identity::generateID; ofRandom(0, 61) never reaches
\* its last character
alphanum == {"0", "A"}

\* Identity::generateID: the strings it can return
generateID == {Filled(ID_LEN, c) : c \in alphanum}

\* a settings document: config["identity"]["id"], or no such key
Config(id) == [kind |-> "object", hasId |-> TRUE, id |-> id]
ConfigWithoutId == [kind |-> "object", hasId |-> FALSE, id |-> <<>>]

\* settings documents a user or an older version may have left on disk
StoredConfigs ==
    {NoConfig, ConfigWithoutId,
     Config(<<>>), Config(Filled(ID_LEN - 1, "A")), Config(Filled(ID_LEN + 1, "A")),
     Config(Filled(ID_LEN, "z")),
     Config([i \in 1..ID_LEN |-> IF i = 3 THEN "-" ELSE "A"])}

\* the ID has the form the specification gives: 8 characters of [0-9A-Za-z]
WellFormedId(id) == Len(id) = ID_LEN /\ \A i \in 1..Len(id) : id[i] \in Alnum

\* Identity::setup, lines 1-10: the ID read from the settings file, the
\* member's previous value when the file or the key is missing
loadedId(myId, config) ==
    IF config # NoConfig /\ config.hasId THEN config.id ELSE myId

\* Identity::setup with Identity::save: myId and the settings file after it
Identity_setup(myId, config, g) ==
    LET loaded == loadedId(myId, config) IN
    IF Len(loaded) # ID_LEN
    THEN [myId |-> g, config |-> Config(g)]
    ELSE [myId |-> loaded, config |-> config]

\* ofApp::reloadProject, reaching identity.setup(configPath)
reloadProjectWith(path, myId) ==
    \E g \in generateID :
        LET r == Identity_setup(myId, id_disk[path], g) IN
        /\ id_myId' = r.myId
        /\ id_disk' = [id_disk EXCEPT ![path] = r.config]
        /\ id_configPath' = path

\* ofApp::setup: the application starts in a project directory
ofApp_setup(path) ==
    /\ ~id_up
    /\ n_ident < MaxIdentOps
    /\ n_ident' = n_ident + 1
    /\ id_up' = TRUE
    /\ reloadProjectWith(path, <<>>)
    /\ UNCHANGED notIdent

\* ofApp::reloadProject from the project dialog of a running application
reloadProject_identity(path) ==
    /\ id_up
    /\ n_ident < MaxIdentOps
    /\ n_ident' = n_ident + 1
    /\ reloadProjectWith(path, id_myId)
    /\ UNCHANGED id_up
    /\ UNCHANGED notIdent

\* The application exits; its members are gone
IdentExit ==
    /\ id_up
    /\ id_up' = FALSE
    /\ id_myId' = <<>>
    /\ id_configPath' = NoProject
    /\ UNCHANGED <<id_disk, n_ident>>
    /\ UNCHANGED notIdent

\* While the application is down a settings file is edited or removed
EditConfig(path, config) ==
    /\ ~id_up
    /\ n_ident < MaxIdentOps
    /\ n_ident' = n_ident + 1
    /\ id_disk[path] # config
    /\ id_disk' = [id_disk EXCEPT ![path] = config]
    /\ UNCHANGED <<id_myId, id_configPath, id_up>>
    /\ UNCHANGED notIdent

InitIdent ==
    /\ id_disk = [p \in Projects |-> NoConfig]
    /\ id_myId = <<>>
    /\ id_configPath = NoProject
    /\ id_up = FALSE
    /\ n_ident = 0

NextIdent ==
    \/ \E path \in Projects : ofApp_setup(path) \/ reloadProject_identity(path)
    \/ IdentExit
    \/ \E path \in Projects, config \in StoredConfigs : EditConfig(path, config)

(***************************************************************************)
(* Claims about the node identity                                          *)
(***************************************************************************)
\* C31: after identity setup completes the node ID is 8 characters of
\* [0-9A-Za-z] and the settings document of the project holds that same ID.
C31_IdentityStoredAndWellFormed ==
    id_up => /\ WellFormedId(id_myId)
             /\ id_disk[id_configPath] = Config(id_myId)

\* C31, the part that holds: the ID in use has 8 characters, and a settings
\* document that holds an ID of 8 characters is loaded as it is
C31_LengthOnly ==
    id_up => /\ Len(id_myId) = ID_LEN
             /\ (id_disk[id_configPath] # NoConfig /\ id_disk[id_configPath].hasId)
                    => id_disk[id_configPath].id = id_myId

(***************************************************************************)
(* Media watcher, locking: MediaWatcher::scan step by step, getAllItems    *)
(***************************************************************************)
MaxLockClock == 4             \* scan intervals observed
MaxUiCalls == 3               \* calls made by the main thread
LockPaths == {<<"a">>, <<"c">>}
LockOrder == <<<<"a">>, <<"c">>>>

\* The media directory during the scans: two files written at time 0
LockDisk == [p \in LockPaths |-> [mtime |-> 0, md5 |-> 1, readable |-> TRUE]]

\* steps of scan that read the file system or hash a file
IoSteps == {"walk", "stat", "hash"}

\* scan, lines 185-188: the file is a settled candidate, getFileMD5 is called
NeedsDigest(info, f, now) ==
    /\ info.tracked
    /\ f.mtime # info.lastTime
    /\ info.isSettling
    /\ f.mtime = info.candidateTime
    /\ now - info.stabilizationStart > settleTime

\* scan, line 144: std::lock_guard lock(dataMutex)
scan_lock ==
    /\ sk_pc = "sleep"
    /\ dataMutex = "none"
    /\ dataMutex' = "scan"
    /\ sk_pc' = "walk"
    /\ sk_changes' = <<>>
    /\ UNCHANGED <<sk_todo, sk_files, sk_queue, sk_clock, ui_pc, ui_items, h_blockedBy, n_ui>>
    /\ UNCHANGED notLock

\* scan, lines 147-150: fs::exists and the recursive directory iterator
scan_walk ==
    /\ sk_pc = "walk"
    /\ sk_todo' = SeqOf(LockOrder, {p \in LockPaths : ~IsTmp(p)})
    /\ sk_pc' = "stat"
    /\ UNCHANGED <<dataMutex, sk_files, sk_changes, sk_queue, sk_clock, ui_pc, ui_items,
                   h_blockedBy, n_ui>>
    /\ UNCHANGED notLock

\* scan, lines 151-210 for the next file: fs::relative, fs::last_write_time,
\* then the PathInfo is updated unless the digest is needed first
scan_stat ==
    /\ sk_pc = "stat"
    /\ sk_todo # <<>>
    /\ LET p == Head(sk_todo) IN
       IF NeedsDigest(sk_files[p], LockDisk[p], sk_clock)
       THEN /\ sk_pc' = "hash"
            /\ UNCHANGED <<sk_todo, sk_files>>
       ELSE /\ sk_files' = [sk_files EXCEPT ![p] = scanFile(@, LockDisk[p], sk_clock).info]
            /\ sk_todo' = Tail(sk_todo)
            /\ UNCHANGED sk_pc
    /\ UNCHANGED <<dataMutex, sk_changes, sk_queue, sk_clock, ui_pc, ui_items, h_blockedBy, n_ui>>
    /\ UNCHANGED notLock

\* scan, lines 188-198: TinyMD5::getFileMD5 reads and hashes the file, then
\* the PathInfo is updated and the path reported
scan_hash ==
    /\ sk_pc = "hash"
    /\ LET p == Head(sk_todo)
           res == scanFile(sk_files[p], LockDisk[p], sk_clock)
       IN  /\ sk_files' = [sk_files EXCEPT ![p] = res.info]
           /\ sk_changes' = IF res.changed THEN Append(sk_changes, p) ELSE sk_changes
           /\ sk_todo' = Tail(sk_todo)
    /\ sk_pc' = "stat"
    /\ UNCHANGED <<dataMutex, sk_queue, sk_clock, ui_pc, ui_items, h_blockedBy, n_ui>>
    /\ UNCHANGED notLock

\* scan, lines 216-225: the entries not seen are erased, dataMutex is released
scan_unlock ==
    /\ sk_pc = "stat"
    /\ sk_todo = <<>>
    /\ sk_files' = [p \in LockPaths |-> IF IsTmp(p) THEN NotWatched ELSE sk_files[p]]
    /\ dataMutex' = "none"
    /\ sk_pc' = "publish"
    /\ UNCHANGED <<sk_todo, sk_changes, sk_queue, sk_clock, ui_pc, ui_items, h_blockedBy, n_ui>>
    /\ UNCHANGED notLock

\* scan, lines 227-230, and the sleep of threadLoop: localChanges is appended
\* to eventQueue under queueMutex, which is held for the insertion only
scan_publish ==
    /\ sk_pc = "publish"
    /\ sk_queue' = sk_queue \o sk_changes
    /\ sk_changes' = <<>>
    /\ sk_pc' = "sleep"
    /\ sk_clock' = IF sk_clock < MaxLockClock THEN sk_clock + 1 ELSE sk_clock
    /\ UNCHANGED <<dataMutex, sk_todo, sk_files, ui_pc, ui_items, h_blockedBy, n_ui>>
    /\ UNCHANGED notLock

\* MediaWatcher::getAllItems once it holds dataMutex: the sorted keys
allItems(watched) == SeqOf(LockOrder, {p \in LockPaths : watched[p].tracked})

\* MediaWatcher::getAllItems called by the main thread: it returns at once
\* when dataMutex is free and waits for the holder otherwise
getAllItems ==
    /\ ui_pc = "idle"
    /\ n_ui < MaxUiCalls
    /\ n_ui' = n_ui + 1
    /\ IF dataMutex = "none"
       THEN /\ ui_items' = allItems(sk_files)
            /\ UNCHANGED <<ui_pc, h_blockedBy>>
       ELSE /\ ui_pc' = "blocked"
            /\ h_blockedBy' = sk_pc
            /\ UNCHANGED ui_items
    /\ UNCHANGED <<dataMutex, sk_pc, sk_todo, sk_files, sk_changes, sk_queue, sk_clock>>
    /\ UNCHANGED notLock

\* getAllItems gets dataMutex after the wait
getAllItems_resume ==
    /\ ui_pc = "blocked"
    /\ dataMutex = "none"
    /\ ui_items' = allItems(sk_files)
    /\ ui_pc' = "idle"
    /\ UNCHANGED <<dataMutex, sk_pc, sk_todo, sk_files, sk_changes, sk_queue, sk_clock,
                   h_blockedBy, n_ui>>
    /\ UNCHANGED notLock

\* MediaWatcher::update of the main thread: the queue is moved out under
\* queueMutex
lock_update ==
    /\ ui_pc = "idle"
    /\ sk_queue # <<>>
    /\ sk_queue' = <<>>
    /\ UNCHANGED <<dataMutex, sk_pc, sk_todo, sk_files, sk_changes, sk_clock, ui_pc, ui_items,
                   h_blockedBy, n_ui>>
    /\ UNCHANGED notLock

InitLock ==
    /\ dataMutex = "none"
    /\ sk_pc = "sleep"
    /\ sk_todo = <<>>
    /\ sk_files = [p \in LockPaths |-> NotWatched]
    /\ sk_changes = <<>>
    /\ sk_queue = <<>>
    /\ sk_clock = 0
    /\ ui_pc = "idle"
    /\ ui_items = <<>>
    /\ h_blockedBy = "none"
    /\ n_ui = 0

NextLock ==
    \/ scan_lock \/ scan_walk \/ scan_stat \/ scan_hash \/ scan_unlock \/ scan_publish
    \/ getAllItems \/ getAllItems_resume
    \/ lock_update

(***************************************************************************)
(* Claims about the mutexes                                                *)
(***************************************************************************)
\* C33: no thread reads the file system or hashes while it holds a state
\* mutex, so getAllItems never has to wait for IO or hashing done by the
\* watcher thread.
C33_NoIoUnderLock ==
    /\ dataMutex = "scan" => sk_pc \notin IoSteps
    /\ ui_pc = "blocked" => h_blockedBy \notin IoSteps

(***************************************************************************)
(* Bulk data: Client::blast_data and ClientSession::receive_bulk_data,     *)
(* byte by byte, for consecutive uploads on one session socket             *)
(***************************************************************************)
MaxXfers == 2                 \* uploads made on the session
UDP_PAYLOAD_SIZE == 2         \* bytes per chunk (1391 in the code, scaled)
UploadContents == {<<1, 1, 1>>, <<2, 2, 2>>, <<2>>}

\* chunks = (size + UDP_PAYLOAD_SIZE - 1) / UDP_PAYLOAD_SIZE
ChunksOf(size) == (size + UDP_PAYLOAD_SIZE - 1) \div UDP_PAYLOAD_SIZE

\* blast_data: the datagram of chunk seq; copy 2 is the one sent again for a NACK
DataPacket(data, seq, copy) ==
    LET off == (seq - 1) * UDP_PAYLOAD_SIZE
        len == IF UDP_PAYLOAD_SIZE < Len(data) - off THEN UDP_PAYLOAD_SIZE
               ELSE Len(data) - off
    IN  [seq |-> seq, tot |-> ChunksOf(Len(data)), bytes |-> SubSeq(data, off + 1, off + len),
         copy |-> copy]

\* blast_data, lines 693-700: every chunk is sent once
blast_data(data) == {DataPacket(data, seq, 1) : seq \in 1..ChunksOf(Len(data))}

\* receive_bulk_data, line 417: t == CMD_DATA && s > 0 && s <= chunks && !rx[s]
Accepted(d, chunks, marked) == d.seq > 0 /\ d.seq <= chunks /\ d.seq \notin marked

\* memcpy(out.data() + (s-1)*UDP_PAYLOAD_SIZE, b + UDP_HEADER_SIZE, n - UDP_HEADER_SIZE):
\* the bytes of out after it
Stored(out, d) ==
    LET off == (d.seq - 1) * UDP_PAYLOAD_SIZE
    IN  [i \in 1..Len(out) |->
            IF i > off /\ i <= off + Len(d.bytes) THEN d.bytes[i - off] ELSE out[i]]

\* the memcpy ends beyond out.data() + out.size()
Overruns(out, d) == (d.seq - 1) * UDP_PAYLOAD_SIZE + Len(d.bytes) > Len(out)

\* Client::upload reaching blast_data, ClientSession::receive_file reaching
\* receive_bulk_data with the announced size: out.resize(size), rx all false
upload(data) ==
    /\ bd_pc = "idle"
    /\ n_xfer < MaxXfers
    /\ n_xfer' = n_xfer + 1
    /\ bd_data' = data
    /\ bd_net' = bd_net \cup blast_data(data)
    /\ bd_out' = [i \in 1..Len(data) |-> 0]
    /\ bd_rx' = {}
    /\ bd_pc' = "recv"
    /\ UNCHANGED h_over
    /\ UNCHANGED notData

\* receive_bulk_data times out and sends a NACK for a missing chunk while the
\* chunk is still on its way; blast_data sends the chunk again (lines 714-719)
resend(seq) ==
    /\ bd_pc = "recv"
    /\ seq \in 1..ChunksOf(Len(bd_data))
    /\ seq \notin bd_rx
    /\ DataPacket(bd_data, seq, 1) \in bd_net
    /\ DataPacket(bd_data, seq, 2) \notin bd_net
    /\ bd_net' = bd_net \cup {DataPacket(bd_data, seq, 2)}
    /\ UNCHANGED <<bd_data, bd_out, bd_rx, bd_pc, h_over, n_xfer>>
    /\ UNCHANGED notData

\* receive_bulk_data, lines 414-421: a datagram is read from the socket.  A
\* memcpy beyond the vector is undefined: the session goes on or crashes.
receive_bulk_data(d) ==
    /\ bd_pc = "recv"
    /\ d \in bd_net
    /\ bd_net' = bd_net \ {d}
    /\ IF Accepted(d, ChunksOf(Len(bd_out)), bd_rx)
       THEN /\ bd_rx' = bd_rx \cup {d.seq}
            /\ bd_out' = Stored(bd_out, d)
            /\ IF Overruns(bd_out, d)
               THEN /\ h_over' = TRUE
                    /\ bd_pc' \in {"recv", "crashed"}
               ELSE UNCHANGED <<h_over, bd_pc>>
       ELSE UNCHANGED <<bd_rx, bd_out, h_over, bd_pc>>
    /\ UNCHANGED <<bd_data, n_xfer>>
    /\ UNCHANGED notData

\* receive_bulk_data, lines 413 and 436-438: cnt has reached chunks, it returns
bulk_complete ==
    /\ bd_pc = "recv"
    /\ Cardinality(bd_rx) = ChunksOf(Len(bd_out))
    /\ bd_pc' = "done"
    /\ UNCHANGED <<bd_net, bd_data, bd_out, bd_rx, h_over, n_xfer>>
    /\ UNCHANGED notData

\* receive_file writes the vector; the session is back in run
receive_file_end ==
    /\ bd_pc = "done"
    /\ bd_pc' = "idle"
    /\ UNCHANGED <<bd_net, bd_data, bd_out, bd_rx, h_over, n_xfer>>
    /\ UNCHANGED notData

\* A datagram is lost, or is read and ignored by ClientSession::run between
\* two transfers
DataLost(d) ==
    /\ d \in bd_net
    /\ bd_net' = bd_net \ {d}
    /\ UNCHANGED <<bd_data, bd_out, bd_rx, bd_pc, h_over, n_xfer>>
    /\ UNCHANGED notData

InitData ==
    /\ bd_net = {}
    /\ bd_data = <<>>
    /\ bd_out = <<>>
    /\ bd_rx = {}
    /\ bd_pc = "idle"
    /\ h_over = FALSE
    /\ n_xfer = 0

NextData ==
    \/ \E data \in UploadContents : upload(data)
    \/ \E seq \in 1..2 : resend(seq)
    \/ \E d \in bd_net : receive_bulk_data(d) \/ DataLost(d)
    \/ bulk_complete
    \/ receive_file_end

(***************************************************************************)
(* Claims about the bytes of a bulk transfer                               *)
(***************************************************************************)
\* C36: when a bulk receive completes, the receiver's buffer equals the bytes
\* the sender passed to the matching bulk send, and no datagram has been
\* stored beyond the buffer.
C36_ReceivedEqualsSent ==
    /\ bd_pc = "done" => bd_out = bd_data
    /\ ~h_over

\* C36 for a session socket that carries no datagram of another transfer: the
\* buffer of a completed receive equals the bytes sent
C36_FirstTransferIntact ==
    (bd_pc = "done" /\ n_xfer = 1) => (bd_out = bd_data /\ ~h_over)

(***************************************************************************)
(* Heartbeat and file transfer in one thread: Network::threadedFunction,   *)
(* Network::transferFile, and the receiving peer of ofApp::update          *)
(***************************************************************************)
MaxBeatNow == 8               \* seconds the clock counts before it saturates
MaxOffers == 2                \* offerFile calls
OFFER_SLEEP_MS == 100         \* transferFile: sleep(100) after the offer
CHUNK_SLEEP_MS == 2           \* transferFile: sleep(2) after every chunk
NoXfer == 0
\* sizes of the offered files in chunks of 1024 bytes (1 KB, 1.5 MB, 3 MB)
FileChunks == {1, 1500, 3000}

\* whole seconds transferFile spends sleeping for a file of this many chunks
Duration(chunks) == (OFFER_SLEEP_MS + chunks * CHUNK_SLEEP_MS) \div 1000

Tick(now) == IF now < MaxBeatNow THEN now + 1 ELSE now

\* Network::updatePeers on the peer: now - lastSeen > 5.0
Evicts(lastSeen, now) == lastSeen # NoPeer /\ now - lastSeen > PEER_TIMEOUT

\* Network::offerFile on the master: the name is queued for the thread
beat_offerFile(f) ==
    /\ n_offers < MaxOffers
    /\ n_offers' = n_offers + 1
    /\ hb_pending' = Append(hb_pending, f)
    /\ UNCHANGED <<hb_now, hb_tick, hb_file, hb_left, hb_lastSeen, hb_incoming,
                   hb_syncing, hb_has, h_evicted>>
    /\ UNCHANGED notBeat

\* threadedFunction with nothing queued, for one second of 16 ms rounds: the
\* round that sees ofGetFrameNum() % 60 == 0 sends the heartbeat, the peer
\* stamps lastSeen, and the peer's update copies incoming.active to its status
threadedFunction_idle ==
    /\ hb_file = NoXfer /\ hb_pending = <<>>
    /\ hb_lastSeen' = hb_now
    /\ hb_now' = Tick(hb_now)
    /\ hb_tick' = ~hb_tick
    /\ hb_syncing' = hb_incoming
    /\ UNCHANGED <<hb_pending, hb_file, hb_left, hb_incoming, hb_has, h_evicted,
                   n_offers>>
    /\ UNCHANGED notBeat

\* threadedFunction pops a name and calls transferFile in the same thread:
\* FILE_OFFER is sent; the peer takes it when its local hash differs
transferFile_offer(delivered) ==
    /\ hb_file = NoXfer /\ hb_pending # <<>>
    /\ hb_file' = Head(hb_pending)
    /\ hb_pending' = Tail(hb_pending)
    /\ hb_left' = Duration(Head(hb_pending))
    /\ hb_incoming' = IF delivered /\ Head(hb_pending) \notin hb_has THEN TRUE
                      ELSE hb_incoming
    /\ UNCHANGED <<hb_now, hb_tick, hb_lastSeen, hb_syncing, hb_has, h_evicted,
                   n_offers>>
    /\ UNCHANGED notBeat

\* transferFile, the chunk loop for one second: chunks and sleep(2), and no
\* return to the heartbeat test; the peer's update runs updatePeers
transferFile_chunks ==
    /\ hb_file # NoXfer /\ hb_left > 0
    /\ hb_left' = hb_left - 1
    /\ hb_now' = Tick(hb_now)
    /\ hb_tick' = ~hb_tick
    /\ hb_syncing' = hb_incoming
    /\ IF Evicts(hb_lastSeen, hb_now')
       THEN hb_lastSeen' = NoPeer /\ h_evicted' = TRUE
       ELSE UNCHANGED <<hb_lastSeen, h_evicted>>
    /\ UNCHANGED <<hb_pending, hb_file, hb_incoming, hb_has, n_offers>>
    /\ UNCHANGED notBeat

\* transferFile sends FILE_END and returns; the peer's FILE_END branch is the
\* one assignment incoming.active = false
transferFile_end(delivered) ==
    /\ hb_file # NoXfer /\ hb_left = 0
    /\ hb_file' = NoXfer
    /\ IF delivered /\ hb_incoming
       THEN hb_incoming' = FALSE /\ hb_has' = hb_has \cup {hb_file}
       ELSE UNCHANGED <<hb_incoming, hb_has>>
    /\ UNCHANGED <<hb_now, hb_tick, hb_pending, hb_left, hb_lastSeen, hb_syncing,
                   h_evicted, n_offers>>
    /\ UNCHANGED notBeat

InitBeat ==
    /\ hb_now = 0 /\ hb_tick = FALSE /\ hb_pending = <<>> /\ hb_file = NoXfer
    /\ hb_left = 0 /\ hb_lastSeen = NoPeer /\ hb_incoming = FALSE
    /\ hb_syncing = FALSE /\ hb_has = {} /\ h_evicted = FALSE /\ n_offers = 0

NextBeat ==
    \/ \E f \in FileChunks : beat_offerFile(f)
    \/ threadedFunction_idle
    \/ \E delivered \in BOOLEAN : transferFile_offer(delivered)
    \/ transferFile_chunks
    \/ \E delivered \in BOOLEAN : transferFile_end(delivered)

\* C38: a peer that accepted a FILE_OFFER eventually leaves the receiving
\* state and stops reporting itself as syncing, even if the FILE_END of the
\* transfer is lost.
C38_ReceivingEnds == hb_incoming ~> (~hb_incoming /\ ~hb_syncing)

\* C39: a running node sends a heartbeat at least once per liveness timeout,
\* also while it transmits a file, so a receiver never evicts it when no
\* datagram is lost.
C39_HeartbeatWithinTimeout ==
    /\ ~h_evicted
    /\ hb_lastSeen # NoPeer => hb_now - hb_lastSeen <= PEER_TIMEOUT

(***************************************************************************)
(* Local deletion: MediaWatcher::scan, the listener that hands the         *)
(* watcher's batch to SyncClient::pathsHasUpdated, process_cache_updates   *)
(* and the upload and delete loops of one cycle                            *)
(***************************************************************************)
MaxGoneChanges == 3           \* writes and removals on the shared root
GonePaths == {"a", "b"}
GoneOrder == <<"a", "b">>
GoneContents == {"v1", "v2"}

GoneUnwatched == [tracked |-> FALSE, lastTime |-> 0]

\* MediaWatcher::scan, lines 146-213: a file that is new or whose write time
\* differs from the confirmed one is queued (once it has settled; the settle
\* clock is the subject of SpecWatch, a pass here finds the file settled)
ChangedPaths(onDisk, mtime, watched) ==
    SelectSeq(GoneOrder, LAMBDA p : /\ onDisk[p] # "none"
                                    /\ \/ ~watched[p].tracked
                                       \/ watched[p].lastTime # mtime[p])

\* MediaWatcher::scan, lines 216-224: the entries of the files not seen in
\* this pass are erased, and nothing is added to localChanges for them
gone_scan ==
    /\ gn_queue' = gn_queue \o ChangedPaths(gn_disk, gn_mtime, gn_watched)
    /\ gn_watched' = [p \in GonePaths |->
                         IF gn_disk[p] = "none" THEN GoneUnwatched
                         ELSE [tracked |-> TRUE, lastTime |-> gn_mtime[p]]]
    /\ gn_tick' = ~gn_tick
    /\ UNCHANGED <<gn_disk, gn_mtime, gn_pending, gn_cache, gn_remote, h_deleted, n_gone>>
    /\ UNCHANGED notGone

\* MediaWatcher::update notifies filesChanged with the queued paths; the
\* listener passes them to SyncClient::pathsHasUpdated
gone_update ==
    /\ gn_queue # <<>>
    /\ gn_pending' = gn_pending \o gn_queue
    /\ gn_queue' = <<>>
    /\ UNCHANGED <<gn_disk, gn_mtime, gn_watched, gn_cache, gn_remote, gn_tick, h_deleted,
                   n_gone>>
    /\ UNCHANGED notGone

\* process_cache_updates: a queued path that no longer exists is erased from
\* the cached, one that exists is hashed and upserted; other entries stay
CacheAfter(cached, updates, onDisk) ==
    [p \in GonePaths |-> IF \E i \in 1..Len(updates) : updates[i] = p THEN onDisk[p]
                         ELSE cached[p]]

\* the upload loop and the delete loop against the peer's listing
RemoteAfter(cached, listed, onDisk) ==
    [p \in GonePaths |->
        IF cached[p] = "none" THEN "none"
        ELSE IF listed[p] # cached[p] /\ onDisk[p] # "none" THEN onDisk[p]
        ELSE listed[p]]

\* SyncClient::threadedFunction, one cycle: the wait ends when paths are
\* queued; the queue is taken, the cached updated, the peer brought in line
gone_cycle ==
    /\ gn_pending # <<>>
    /\ gn_pending' = <<>>
    /\ gn_cache' = CacheAfter(gn_cache, gn_pending, gn_disk)
    /\ gn_remote' = RemoteAfter(gn_cache', gn_remote, gn_disk)
    /\ h_deleted' = h_deleted \cup
                      {p \in GonePaths : gn_cache'[p] = "none" /\ gn_remote[p] # "none"}
    /\ UNCHANGED <<gn_disk, gn_mtime, gn_watched, gn_queue, gn_tick, n_gone>>
    /\ UNCHANGED notGone

\* the user writes a file of the shared root
gone_write(p, c) ==
    /\ n_gone < MaxGoneChanges
    /\ gn_disk[p] # c
    /\ gn_disk' = [gn_disk EXCEPT ![p] = c]
    /\ gn_mtime' = [gn_mtime EXCEPT ![p] = n_gone + 1]
    /\ n_gone' = n_gone + 1
    /\ UNCHANGED <<gn_watched, gn_queue, gn_pending, gn_cache, gn_remote, gn_tick,
                   h_deleted>>
    /\ UNCHANGED notGone

\* the user deletes a file of the shared root
gone_remove(p) ==
    /\ n_gone < MaxGoneChanges
    /\ gn_disk[p] # "none"
    /\ gn_disk' = [gn_disk EXCEPT ![p] = "none"]
    /\ n_gone' = n_gone + 1
    /\ UNCHANGED <<gn_mtime, gn_watched, gn_queue, gn_pending, gn_cache, gn_remote, gn_tick,
                   h_deleted>>
    /\ UNCHANGED notGone

\* the master and the peer are in step and the watcher has confirmed every file
InitGone ==
    /\ gn_disk = [p \in GonePaths |-> "v1"]
    /\ gn_mtime = [p \in GonePaths |-> 0]
    /\ gn_watched = [p \in GonePaths |-> [tracked |-> TRUE, lastTime |-> 0]]
    /\ gn_queue = <<>>
    /\ gn_pending = <<>>
    /\ gn_cache = [p \in GonePaths |-> "v1"]
    /\ gn_remote = [p \in GonePaths |-> "v1"]
    /\ gn_tick = FALSE
    /\ h_deleted = {}
    /\ n_gone = 0

NextGone ==
    \/ gone_scan
    \/ gone_update
    \/ gone_cycle
    \/ \E p \in GonePaths, c \in GoneContents : gone_write(p, c)
    \/ \E p \in GonePaths : gone_remove(p)

\* C37: after a file is deleted from the local shared root and nothing else
\* changes, the engine eventually removes the path from its content set and
\* issues DELETE for it to the peer.
C37_DeletionPropagates ==
    \A p \in GonePaths :
        (gn_disk[p] = "none") ~>
            (gn_disk[p] # "none" \/ (gn_cache[p] = "none" /\ p \in h_deleted))

\* A written file, in contrast, reaches the peer
C37_WritesPropagate ==
    \A p \in GonePaths, c \in GoneContents :
        (gn_disk[p] = c) ~> (gn_disk[p] # c \/ gn_remote[p] = c)

(***************************************************************************)
(* Specifications                                                          *)
(***************************************************************************)
\* The other components at rest
RestOfEngine == InitTcp /\ InitPath /\ InitBulk /\ InitSess /\ InitMd5 /\ InitIdle /\ InitHand /\ InitNode /\ InitComs /\ InitWatch /\ InitOfw /\ InitRecv /\ InitWarp /\ InitIdent /\ InitLock /\ InitData /\ InitBeat /\ InitGone
RestOfTcp == InitEngine /\ InitPath /\ InitBulk /\ InitSess /\ InitMd5 /\ InitIdle /\ InitHand /\ InitNode /\ InitComs /\ InitWatch /\ InitOfw /\ InitRecv /\ InitWarp /\ InitIdent /\ InitLock /\ InitData /\ InitBeat /\ InitGone
RestOfPath == InitEngine /\ InitTcp /\ InitBulk /\ InitSess /\ InitMd5 /\ InitIdle /\ InitHand /\ InitNode /\ InitComs /\ InitWatch /\ InitOfw /\ InitRecv /\ InitWarp /\ InitIdent /\ InitLock /\ InitData /\ InitBeat /\ InitGone
RestOfBulk == InitEngine /\ InitTcp /\ InitPath /\ InitSess /\ InitMd5 /\ InitIdle /\ InitHand /\ InitNode /\ InitComs /\ InitWatch /\ InitOfw /\ InitRecv /\ InitWarp /\ InitIdent /\ InitLock /\ InitData /\ InitBeat /\ InitGone
RestOfSess == InitEngine /\ InitTcp /\ InitPath /\ InitBulk /\ InitMd5 /\ InitIdle /\ InitHand /\ InitNode /\ InitComs /\ InitWatch /\ InitOfw /\ InitRecv /\ InitWarp /\ InitIdent /\ InitLock /\ InitData /\ InitBeat /\ InitGone
RestOfMd5 == InitEngine /\ InitTcp /\ InitPath /\ InitBulk /\ InitSess /\ InitIdle /\ InitHand /\ InitNode /\ InitComs /\ InitWatch /\ InitOfw /\ InitRecv /\ InitWarp /\ InitIdent /\ InitLock /\ InitData /\ InitBeat /\ InitGone
RestOfIdle == InitEngine /\ InitTcp /\ InitPath /\ InitBulk /\ InitSess /\ InitMd5 /\ InitHand /\ InitNode /\ InitComs /\ InitWatch /\ InitOfw /\ InitRecv /\ InitWarp /\ InitIdent /\ InitLock /\ InitData /\ InitBeat /\ InitGone
RestOfHand == InitEngine /\ InitTcp /\ InitPath /\ InitBulk /\ InitSess /\ InitMd5 /\ InitIdle /\ InitNode /\ InitComs /\ InitWatch /\ InitOfw /\ InitRecv /\ InitWarp /\ InitIdent /\ InitLock /\ InitData /\ InitBeat /\ InitGone
RestOfNode == InitEngine /\ InitTcp /\ InitPath /\ InitBulk /\ InitSess /\ InitMd5 /\ InitIdle /\ InitHand /\ InitComs /\ InitWatch /\ InitOfw /\ InitRecv /\ InitWarp /\ InitIdent /\ InitLock /\ InitData /\ InitBeat /\ InitGone
RestOfComs == InitEngine /\ InitTcp /\ InitPath /\ InitBulk /\ InitSess /\ InitMd5 /\ InitIdle /\ InitHand /\ InitNode /\ InitWatch /\ InitOfw /\ InitRecv /\ InitWarp /\ InitIdent /\ InitLock /\ InitData /\ InitBeat /\ InitGone
RestOfWatch == InitEngine /\ InitTcp /\ InitPath /\ InitBulk /\ InitSess /\ InitMd5 /\ InitIdle /\ InitHand /\ InitNode /\ InitComs /\ InitOfw /\ InitRecv /\ InitWarp /\ InitIdent /\ InitLock /\ InitData /\ InitBeat /\ InitGone
RestOfOfw == InitEngine /\ InitTcp /\ InitPath /\ InitBulk /\ InitSess /\ InitMd5 /\ InitIdle /\ InitHand /\ InitNode /\ InitComs /\ InitWatch /\ InitRecv /\ InitWarp /\ InitIdent /\ InitLock /\ InitData /\ InitBeat /\ InitGone
RestOfRecv == InitEngine /\ InitTcp /\ InitPath /\ InitBulk /\ InitSess /\ InitMd5 /\ InitIdle /\ InitHand /\ InitNode /\ InitComs /\ InitWatch /\ InitOfw /\ InitWarp /\ InitIdent /\ InitLock /\ InitData /\ InitBeat /\ InitGone
RestOfWarp == InitEngine /\ InitTcp /\ InitPath /\ InitBulk /\ InitSess /\ InitMd5 /\ InitIdle /\ InitHand /\ InitNode /\ InitComs /\ InitWatch /\ InitOfw /\ InitRecv /\ InitIdent /\ InitLock /\ InitData /\ InitBeat /\ InitGone
RestOfIdent == InitEngine /\ InitTcp /\ InitPath /\ InitBulk /\ InitSess /\ InitMd5 /\ InitIdle /\ InitHand /\ InitNode /\ InitComs /\ InitWatch /\ InitOfw /\ InitRecv /\ InitWarp /\ InitLock /\ InitData /\ InitBeat /\ InitGone
RestOfLock == InitEngine /\ InitTcp /\ InitPath /\ InitBulk /\ InitSess /\ InitMd5 /\ InitIdle /\ InitHand /\ InitNode /\ InitComs /\ InitWatch /\ InitOfw /\ InitRecv /\ InitWarp /\ InitIdent /\ InitData /\ InitBeat /\ InitGone
RestOfData == InitEngine /\ InitTcp /\ InitPath /\ InitBulk /\ InitSess /\ InitMd5 /\ InitIdle /\ InitHand /\ InitNode /\ InitComs /\ InitWatch /\ InitOfw /\ InitRecv /\ InitWarp /\ InitIdent /\ InitLock /\ InitBeat /\ InitGone
RestOfBeat == InitEngine /\ InitTcp /\ InitPath /\ InitBulk /\ InitSess /\ InitMd5 /\ InitIdle /\ InitHand /\ InitNode /\ InitComs /\ InitWatch /\ InitOfw /\ InitRecv /\ InitWarp /\ InitIdent /\ InitLock /\ InitData /\ InitGone
RestOfGone == InitEngine /\ InitTcp /\ InitPath /\ InitBulk /\ InitSess /\ InitMd5 /\ InitIdle /\ InitHand /\ InitNode /\ InitComs /\ InitWatch /\ InitOfw /\ InitRecv /\ InitWarp /\ InitIdent /\ InitLock /\ InitData /\ InitBeat

Init == InitEngine /\ RestOfEngine
Spec == Init /\ [][Next]_vars

LiveStart == LiveInit /\ RestOfEngine

LiveSpec ==
    /\ LiveStart
    /\ [][LiveNext]_vars
    /\ WF_vars(Running)
    /\ SF_vars(ConnectOk)
    /\ SF_vars(ListOk)
    /\ SF_vars(UploadOk)
    /\ SF_vars(DeleteOk)

CycleSpec == Init /\ [][CycleNext]_vars /\ WF_vars(Running) /\ WF_vars(start)
StartTcp == InitTcp /\ RestOfTcp
SpecTcp == StartTcp /\ [][NextTcp]_vars
StartPath == InitPath /\ RestOfPath
SpecPath == StartPath /\ [][NextPath]_vars

StartBulk == InitBulk /\ RestOfBulk
SpecBulk == StartBulk /\ [][NextBulk]_vars /\ FairBulk
SpecStop == StartBulk /\ [][NextStop]_vars /\ FairBulk

StartSess == InitSess /\ RestOfSess
SpecSess == StartSess /\ [][NextSess]_vars

StartMd5 == InitMd5 /\ RestOfMd5
SpecMd5 == StartMd5 /\ [][NextMd5]_vars

StartIdle == InitIdle /\ RestOfIdle
SpecIdle == StartIdle /\ [][NextIdle]_vars /\ WF_vars(SessionThread)

StartHand == InitHand /\ RestOfHand
SpecHand == StartHand /\ [][NextHand]_vars

StartNode == InitNode /\ RestOfNode
SpecNode == StartNode /\ [][NextNode]_vars

StartComs == InitComs /\ RestOfComs
SpecComs == StartComs /\ [][NextComs]_vars

StartWatch == InitWatch /\ RestOfWatch
SpecWatch == StartWatch /\ [][NextWatch]_vars /\ WF_vars(threadLoop) /\ WF_vars(watcher_update)

StartOfw == InitOfw /\ RestOfOfw
SpecOfw == StartOfw /\ [][NextOfw]_vars /\ WF_vars(ofWatcher_scan)

StartRecv == InitRecv /\ RestOfRecv
SpecRecv == StartRecv /\ [][NextRecv]_vars /\ WF_vars(ofBufferToFile) /\ WF_vars(renameTo)

StartWarp == InitWarp /\ RestOfWarp
SpecWarp == StartWarp /\ [][NextWarp]_vars

StartIdent == InitIdent /\ RestOfIdent
SpecIdent == StartIdent /\ [][NextIdent]_vars

StartLock == InitLock /\ RestOfLock
SpecLock == StartLock /\ [][NextLock]_vars

StartData == InitData /\ RestOfData
SpecData == StartData /\ [][NextData]_vars

StartBeat == InitBeat /\ RestOfBeat
SpecBeat == /\ StartBeat /\ [][NextBeat]_vars
            /\ WF_vars(threadedFunction_idle)
            /\ WF_vars(transferFile_chunks)
            /\ WF_vars(\E delivered \in BOOLEAN : transferFile_offer(delivered))
            /\ WF_vars(\E delivered \in BOOLEAN : transferFile_end(delivered))

StartGone == InitGone /\ RestOfGone
SpecGone == /\ StartGone /\ [][NextGone]_vars
            /\ WF_vars(gone_scan) /\ WF_vars(gone_update) /\ WF_vars(gone_cycle)

====
